---- MODULE Spec2Model ----
(***************************************************************************)
(* Segregated storage: a lock-free free-list of fixed-size chunks backed   *)
(* by a page list that grows under a mutex (RawSegregatedStorage), the     *)
(* typed wrapper (SegregatedStorage<T>) and the (size, alignment)-keyed    *)
(* registry (SegregatedMultiStorage).                                      *)
(*                                                                         *)
(* Every step of a thread is one access to shared memory of the C++ code:  *)
(* an atomic load, a compare_exchange_weak, a write of a chunk's next      *)
(* link, a mutex acquisition.  Chunks are numbered in the order the memory *)
(* provider hands them out; 0 is nullptr.                                  *)
(***************************************************************************)
EXTENDS Integers, Sequences, FiniteSets, TLC

\* ------------------------------------------------------------------ bounds
NumThreads == 2       \* threads of the concurrent workloads
MaxOps == 3           \* calls per thread in the mixed raw workload
GrowthPages == 2      \* P of the allocate-only workload
ReuseObjects == 3     \* largest k of the allocate / free / allocate-again workload
MaxTypedOps == 5      \* calls of the sequential typed workload
MaxFailureOps == 4    \* calls of the sequential workload with a failing memory provider
MaxRefs == 2          \* references to one shared handle
MaxHandleOps == 4     \* calls of the owning-handle workload
MaxLayoutOps == 3     \* calls of the layout workload
MaxBaseMultiple == 3  \* page addresses tried, in multiples of the page alignment
SizeBits == 16        \* width of size_t
MaxDoublingOps == 4   \* calls of the page-doubling workload
MaxTeardownOps == 4   \* calls before the destructor
MaxLegacyOps == 4     \* calls on the legacy pool
MaxLegacyDtors == 10  \* destructor calls the legacy pool's destructor is followed for
MaxRefineOps == 6     \* operations driven through both facades
MaxLifoOps == 8       \* calls of the sequential reuse-order workload
LifoItems == 3        \* chunks of the first page in the reuse-order workload
MaxMutexOps == 2      \* calls per thread in the workload with a failing memory provider
RegistryOps == 2      \* calls per thread in the registry workload

Threads == 1..NumThreads

\* ------------------------------------------------------------ data layout
NULL == 0
PointerSize == 8
NoType == "none"

Max(a, b) == IF a >= b THEN a ELSE b
RoundUp(n, a) == ((n + a - 1) \div a) * a

\* The types the tests allocate, with sizeof / alignof on an LP64 build.
Types == {"TestClass", "ThrowableCtor", "Bucket1", "Bucket2", "AlignedClass"}

SizeOf(T) ==
  CASE T = "TestClass" -> 8
    [] T = "ThrowableCtor" -> 4
    [] T = "Bucket1" -> 16
    [] T = "Bucket2" -> 16
    [] T = "AlignedClass" -> 16

AlignOf(T) ==
  CASE T = "TestClass" -> 4
    [] T = "ThrowableCtor" -> 4
    [] T = "Bucket1" -> 8
    [] T = "Bucket2" -> 8
    [] T = "AlignedClass" -> 16

\* struct RawSegregatedStorageItem { Item* next; alignas(Alignment) byte body[Size]; }
ItemAlign(Alignment) == Max(Alignment, PointerSize)
BodyOffsetPacked(Alignment) == PointerSize
BodyOffset(Alignment) == RoundUp(PointerSize, Alignment)
ItemSize(Size, Alignment) == RoundUp(BodyOffset(Alignment) + Size, ItemAlign(Alignment))

\* struct RawSegregatedStoragePage { Page* nextPage_; Item items_; } (run-time page size)
ItemsOffset(Alignment) == RoundUp(PointerSize, ItemAlign(Alignment))
PageBytes(Size, Alignment) == ItemsOffset(Alignment) + ItemSize(Size, Alignment)

\* Addresses: &items[i] relative to the page, and the pointer allocate() returns for the
\* chunk, oldHead->body, in a page that the memory provider placed at base.
ItemOffset(Size, Alignment, i) == ItemsOffset(Alignment) + i * ItemSize(Size, Alignment)
BodyAddress(Size, Alignment, base, i) == base + ItemOffset(Size, Alignment, i) + BodyOffset(Alignment)

\* operator new(pageSize, std::align_val_t(alignof(Page))) / new Page: any address that is
\* a multiple of alignof(Page).
AlignedBases(Alignment) == {k * ItemAlign(Alignment) : k \in 1..MaxBaseMultiple}

\* Number of chunks of a page of pageSize bytes; 0 stands for the page-size error.
\*   fixed:   itemCount = PageSize / itemSize
\*   growing: itemCount = (pageSize - sizeof(Page)) / sizeof(Item) + 1
\*   opool:   count = Size / sizeof(Item)   (ObjectPoolPage<T, Size>)
ItemCountRoundsUp(policy, Size, Alignment, pageSize) ==
  IF policy # "growing"
    THEN pageSize \div ItemSize(Size, Alignment)
    ELSE IF pageSize < PageBytes(Size, Alignment)
           THEN 0
           ELSE (pageSize - PageBytes(Size, Alignment) + ItemSize(Size, Alignment) - 1)
                   \div ItemSize(Size, Alignment) + 1
ItemCount(policy, Size, Alignment, pageSize) ==
  IF policy # "growing"
    THEN pageSize \div ItemSize(Size, Alignment)
    ELSE IF pageSize < PageBytes(Size, Alignment)
           THEN 0
           ELSE (pageSize - PageBytes(Size, Alignment)) \div ItemSize(Size, Alignment) + 1

\* size_t arithmetic wraps at 2^SizeBits, and the memory provider refuses a request
\* larger than half of that range (PTRDIFF_MAX), as operator new does.
SizeLimit == 2 ^ SizeBits
MaxRequest == SizeLimit \div 2 - 1

\* pageSize_ *= 2 in the run-time version; the template version has a constant PageSize.
PageSizeConstant(policy, pageSize) == pageSize
NextPageSize(policy, pageSize) ==
  IF policy = "growing" THEN (pageSize * 2) % SizeLimit ELSE pageSize

\* ------------------------------------------------------------------ state
VARIABLES
  raw,        \* the RawSegregatedStorage objects ever constructed, by number
  next,       \* next[c]: the next link of chunk c
  live,       \* live[c]: how many callers currently hold chunk c
  obj,        \* obj[c]: the type of the object constructed in chunk c, or NoType
  storage_,   \* the registry map: key -> number of its RawSegregatedStorage
  mutex_,     \* the registry's shared_mutex: [writer, readers]
  destroyed,  \* the RawSegregatedStorage objects already destructed
  th,         \* per thread: program counter and locals of the running call
  outcome,    \* per thread: what its last call returned to the caller
  calls,      \* per thread: number of calls issued in the current phase
  work        \* the program that uses the allocator: its phase and what it has noted

vars == <<raw, next, live, obj, storage_, mutex_, destroyed, th, outcome, calls, work>>

mem == <<next, live, obj>>
reg == <<storage_, mutex_, destroyed>>

\* A freshly constructed RawSegregatedStorage.
NewStorage(policy, Size, Alignment, pageSize) ==
  [ policy |-> policy, Size |-> Size, Alignment |-> Alignment,
    pageSize_ |-> pageSize, pageCount_ |-> 0, freeItems_ |-> NULL,
    pageHead_ |-> << >>, allocationMutex_ |-> 0 ]

\* Locals of a thread that is not inside a call.  via names the interface the call came
\* through: "raw" (RawSegregatedStorage), "single" (SegregatedStorage<T>) or "multi"
\* (SegregatedMultiStorage); own names the handle the call wraps its result in: "none"
\* (allocate), "unique" (allocateUnique) or "shared" (allocateShared).
Idle ==
  [ pc |-> "idle", via |-> "raw", own |-> "none", s |-> 0, T |-> NoType, arg |-> FALSE, ptr |-> NULL,
    exc |-> "none", pageCount |-> 0, oldHead |-> NULL, order |-> "none", nextHead |-> NULL,
    head |-> NULL, tail |-> NULL, pushOldHead |-> NULL, after |-> "none" ]

\* What a caller has in hand: the result of its last call (kind, chunk, the storage that
\* served it) and what it noted when it made the call (free chunks, pages, as the tests
\* note MemoryHelper::allocationCount() before a call).
NoOutcome == [kind |-> "none", chunk |-> NULL, s |-> 0, freeBefore |-> 0, pagesBefore |-> 0]

\* Chunks of a page, of a storage, and the free-list as the set reachable from the head.
PageChunks(p) == p.first .. (p.first + p.count - 1)
StorageChunks(s) == UNION { PageChunks(raw[s].pageHead_[i]) : i \in 1..Len(raw[s].pageHead_) }

RECURSIVE Reach(_, _)
Reach(c, seen) ==
  IF c = NULL \/ c \in seen THEN seen ELSE Reach(next[c], seen \cup {c})

FreeSet(s) == Reach(raw[s].freeItems_, {})

\* Walk of the free-list: TRUE when it ends in nullptr without a repeated chunk.
RECURSIVE Acyclic(_, _)
Acyclic(c, seen) ==
  IF c = NULL THEN TRUE
  ELSE IF c \in seen THEN FALSE
  ELSE Acyclic(next[c], seen \cup {c})

\* ---------------------------------------------- RawSegregatedStorage::allocate
\* The top of the do-loop: an empty list leads into addPage, otherwise oldHead->next is read.
LoopTopLocksFirst(oldHead) == "p_lock"
LoopTop(oldHead) == IF oldHead = NULL THEN "p_lock" ELSE "a_readNext"

\* Where allocate() goes on when addPage has returned:
\* pageCount = pageCount_.load(); oldHead = freeItems_.load();
AfterAddPageHeadOnly == "a_loadHead"
AfterAddPage == "a_loadCount"

\* The memory orders of the operations on freeItems_: load() is memory_order_seq_cst;
\* compare_exchange_weak(expected, desired) is seq_cst on both outcomes in the template
\* version and in ObjectPool, and (memory_order_release, memory_order_relaxed) in the
\* run-time version.
LoadOrder == "seq_cst"
SuccessOrder(policy) == IF policy = "growing" THEN "release" ELSE "seq_cst"
FailureOrder(policy) == IF policy = "growing" THEN "relaxed" ELSE "seq_cst"

\* auto pageCount = pageCount_.load();
AllocLoadCount(t) ==
  /\ th[t].pc = "a_loadCount"
  /\ th' = [th EXCEPT ![t].pageCount = raw[th[t].s].pageCount_, ![t].pc = "a_loadHead"]
  /\ UNCHANGED <<raw, mem, reg, outcome, calls, work>>

\* auto oldHead = freeItems_.load();  (also the reload after addPage)
AllocLoadHead(t) ==
  /\ th[t].pc = "a_loadHead"
  /\ th' = [th EXCEPT ![t].oldHead = raw[th[t].s].freeItems_,
                      ![t].order = LoadOrder,
                      ![t].pc = LoopTop(raw[th[t].s].freeItems_)]
  /\ UNCHANGED <<raw, mem, reg, outcome, calls, work>>

\* nextHead = oldHead->next;
AllocReadNext(t) ==
  /\ th[t].pc = "a_readNext"
  /\ th' = [th EXCEPT ![t].nextHead = next[th[t].oldHead], ![t].pc = "a_cas"]
  /\ UNCHANGED <<raw, mem, reg, outcome, calls, work>>

\* What the caller of RawSegregatedStorage::allocate does with the chunk: a raw caller
\* holds it; a typed allocator goes on to construct T in it.
Returned(t, c) ==
  IF th[t].via = "raw"
    THEN /\ th' = [th EXCEPT ![t] = Idle]
         /\ live' = [live EXCEPT ![c] = @ + 1]
         /\ outcome' = [outcome EXCEPT ![t].kind = "chunk", ![t].chunk = c, ![t].s = th[t].s]
    ELSE /\ th' = [th EXCEPT ![t].ptr = c, ![t].pc = "t_ctor", ![t].pageCount = 0,
                             ![t].oldHead = NULL, ![t].order = "none", ![t].nextHead = NULL]
         /\ UNCHANGED <<live, outcome>>

\* freeItems_.compare_exchange_weak(oldHead, nextHead): success returns oldHead->body.
AllocCASOk(t) ==
  /\ th[t].pc = "a_cas"
  /\ raw[th[t].s].freeItems_ = th[t].oldHead
  /\ raw' = [raw EXCEPT ![th[t].s].freeItems_ = th[t].nextHead]
  /\ Returned(t, th[t].oldHead)
  /\ UNCHANGED <<next, obj, reg, calls, work>>

\* A failed compare_exchange_weak (the head differs, or a spurious failure) stores the
\* current head into oldHead, read with the failure order; the loop goes on without
\* re-reading pageCount_.
AllocCASFail(t) ==
  /\ th[t].pc = "a_cas"
  /\ th' = [th EXCEPT ![t].oldHead = raw[th[t].s].freeItems_,
                      ![t].order = FailureOrder(raw[th[t].s].policy),
                      ![t].pc = LoopTop(raw[th[t].s].freeItems_)]
  /\ UNCHANGED <<raw, mem, reg, outcome, calls, work>>

\* ----------------------------------------------- RawSegregatedStorage::addPage
\* The owner of allocationMutex_ when the lock_guard of addPage goes out of scope, by a
\* return or by an exception that leaves addPage: nobody.
LockGuardKeeps(holder) == holder
LockGuardEnds(holder) == 0

\* std::lock_guard<std::mutex> lock(allocationMutex_);
AddPageLock(t) ==
  /\ th[t].pc = "p_lock"
  /\ raw[th[t].s].allocationMutex_ = 0
  /\ raw' = [raw EXCEPT ![th[t].s].allocationMutex_ = t]
  /\ th' = [th EXCEPT ![t].pc = "p_check"]
  /\ UNCHANGED <<mem, reg, outcome, calls, work>>

\* if (oldPageCount != pageCount_) return;
AddPageNeverSkips(oldPageCount, pageCount) == FALSE
AddPageAlwaysSkips(oldPageCount, pageCount) == TRUE
AddPageSkip(oldPageCount, pageCount) == oldPageCount # pageCount

\* What addPage does first once the check has passed: RawSegregatedStorage obtains the
\* page, ObjectPool increments pageCount_.
AfterCheckCountsFirst(policy) == "o_inc"
AfterCheck(policy) == IF policy = "opool" THEN "o_inc" ELSE "p_alloc"

AddPageCheck(t) ==
  /\ th[t].pc = "p_check"
  /\ IF AddPageSkip(th[t].pageCount, raw[th[t].s].pageCount_)
       THEN /\ raw' = [raw EXCEPT ![th[t].s].allocationMutex_ = LockGuardEnds(t)]
            /\ th' = [th EXCEPT ![t].pc = AfterAddPage]
       ELSE /\ th' = [th EXCEPT ![t].pc = AfterCheck(raw[th[t].s].policy)]
            /\ UNCHANGED raw
  /\ UNCHANGED <<mem, reg, outcome, calls, work>>

\* The next links of a new page of n chunks after the chunks 1..base: i -> i + 1, last -> nullptr.
PageInitUnlinked(base, n) == [i \in 1..n |-> NULL]
PageInitSkips(base, n) == [i \in 1..n |-> IF i + 2 > n THEN NULL ELSE base + i + 2]
PageInit(base, n) == [i \in 1..n |-> IF i = n THEN NULL ELSE base + i + 1]

\* The new page becomes the head of the page list, the old head is its nextPage_.
LinkPageDropsOld(page, pages) == <<page>>
LinkPage(page, pages) == <<page>> \o pages

\* pageHead_ = Page::allocate(pageSize_, pageHead_, &head, &tail); then push(head, tail) begins.
\* The page record notes its chunks, its byte size and the oldPageCount its addPage carried.
AddPageAlloc(t) ==
  LET s == th[t].s
      n == ItemCount(raw[s].policy, raw[s].Size, raw[s].Alignment, raw[s].pageSize_)
      base == Len(next)
      page == [first |-> base + 1, count |-> n, bytes |-> raw[s].pageSize_,
               round |-> th[t].pageCount]
  IN /\ th[t].pc = "p_alloc"
     /\ n > 0
     /\ raw[s].policy = "growing" => raw[s].pageSize_ <= MaxRequest
     /\ next' = next \o PageInit(base, n)
     /\ live' = live \o [i \in 1..n |-> 0]
     /\ obj' = obj \o [i \in 1..n |-> NoType]
     /\ raw' = [raw EXCEPT ![s].pageHead_ = LinkPage(page, @)]
     /\ th' = [th EXCEPT ![t].head = base + 1, ![t].tail = base + n,
                         ![t].after = IF raw[s].policy = "opool" THEN "o_ret" ELSE "p_inc",
                         ![t].pc = "u_load"]
     /\ UNCHANGED <<reg, outcome, calls, work>>

\* ++pageCount_;
PageCountStays(pageCount) == pageCount
PageCountJumps(pageCount) == pageCount + 2
NextPageCount(pageCount) == pageCount + 1

\* The memory provider cannot satisfy the request: operator new (std::make_unique in
\* ObjectPool) throws std::bad_alloc before anything is assigned; the exception leaves
\* addPage, where the lock_guard releases the mutex, and leaves allocate(), which the
\* typed allocators call outside their try block.
AddPageAllocFails(t) ==
  /\ th[t].pc = "p_alloc"
  /\ ItemCount(raw[th[t].s].policy, raw[th[t].s].Size, raw[th[t].s].Alignment,
               raw[th[t].s].pageSize_) > 0
  /\ raw' = [raw EXCEPT ![th[t].s].allocationMutex_ = LockGuardEnds(t)]
  /\ th' = [th EXCEPT ![t] = Idle]
  /\ outcome' = [outcome EXCEPT ![t].kind = "bad_alloc", ![t].s = th[t].s]
  /\ UNCHANGED <<mem, reg, calls, work>>

\* Page::allocate: if (pageSize < sizeof(Page)) throw std::runtime_error("Page size must
\* be large enough to fit at least one item"); it leaves addPage and allocate() likewise.
AddPageSizeError(t) ==
  LET s == th[t].s
  IN /\ th[t].pc = "p_alloc"
     /\ ItemCount(raw[s].policy, raw[s].Size, raw[s].Alignment, raw[s].pageSize_) = 0
     /\ raw' = [raw EXCEPT ![s].allocationMutex_ = LockGuardEnds(t)]
     /\ th' = [th EXCEPT ![t] = Idle]
     /\ outcome' = [outcome EXCEPT ![t].kind = "runtime_error", ![t].s = s]
     /\ UNCHANGED <<mem, reg, calls, work>>

\* pageSize_ *= 2; ++pageCount_; and the lock_guard releases the mutex on return.
AddPageInc(t) ==
  LET s == th[t].s
  IN /\ th[t].pc = "p_inc"
     /\ raw' = [raw EXCEPT ![s].pageSize_ = NextPageSize(raw[s].policy, @),
                           ![s].pageCount_ = NextPageCount(@),
                           ![s].allocationMutex_ = LockGuardEnds(t)]
     /\ th' = [th EXCEPT ![t].pc = AfterAddPage]
     /\ UNCHANGED <<mem, reg, outcome, calls, work>>

\* -------------------------------------------------- RawSegregatedStorage::push
\* auto oldHead = freeItems_.load();
PushLoad(t) ==
  /\ th[t].pc = "u_load"
  /\ th' = [th EXCEPT ![t].pushOldHead = raw[th[t].s].freeItems_, ![t].pc = "u_link"]
  /\ UNCHANGED <<raw, mem, reg, outcome, calls, work>>

\* tail->next = oldHead;
PushDropsList(oldHead) == NULL
PushLinkValue(oldHead) == oldHead

\* The chunk whose next link push writes: the tail of the chain it was given.
LinkTargetOldHead(tail, oldHead) == IF oldHead = NULL THEN tail ELSE oldHead
LinkTarget(tail, oldHead) == tail

PushLink(t) ==
  /\ th[t].pc = "u_link"
  /\ next' = [next EXCEPT ![LinkTarget(th[t].tail, th[t].pushOldHead)] = PushLinkValue(th[t].pushOldHead)]
  /\ th' = [th EXCEPT ![t].pc = "u_cas"]
  /\ UNCHANGED <<raw, live, obj, reg, outcome, calls, work>>

\* Where push returns to: into addPage, or out of free() to the caller, or to the
\* "throw;" of the typed allocator's catch block, which hands the caught exception on.
RethrownAsOther(exc) == "runtime_error"
Rethrown(exc) == exc

PushReturn(t) ==
  CASE th[t].after \in {"p_inc", "o_ret", "l_ret"} ->
         /\ th' = [th EXCEPT ![t].pc = th[t].after, ![t].head = NULL, ![t].tail = NULL,
                             ![t].pushOldHead = NULL, ![t].after = "none"]
         /\ UNCHANGED outcome
    [] th[t].after = "free" ->
         /\ th' = [th EXCEPT ![t] = Idle]
         /\ outcome' = [outcome EXCEPT ![t].kind = "freed", ![t].chunk = th[t].head,
                                       ![t].s = th[t].s]
    [] th[t].after = "rethrow" ->
         /\ th' = [th EXCEPT ![t] = Idle]
         /\ outcome' = [outcome EXCEPT ![t].kind = Rethrown(th[t].exc),
                                       ![t].chunk = th[t].head, ![t].s = th[t].s]

\* freeItems_.compare_exchange_weak(oldHead, head) succeeds: only if the head still is
\* the oldHead that tail->next was given.
PushStoresAlways(current, oldHead) == TRUE
PushCompare(current, oldHead) == current = oldHead

PushCASOk(t) ==
  /\ th[t].pc = "u_cas"
  /\ PushCompare(raw[th[t].s].freeItems_, th[t].pushOldHead)
  /\ raw' = [raw EXCEPT ![th[t].s].freeItems_ = th[t].head]
  /\ PushReturn(t)
  /\ UNCHANGED <<mem, reg, calls, work>>

\* compare_exchange_weak fails (or fails spuriously): oldHead takes the current head.
PushCASFail(t) ==
  /\ th[t].pc = "u_cas"
  /\ th' = [th EXCEPT ![t].pushOldHead = raw[th[t].s].freeItems_, ![t].pc = "u_link"]
  /\ UNCHANGED <<raw, mem, reg, outcome, calls, work>>

\* The steps of the raw allocator that a thread inside a call can take.
RawStep(t) ==
  \/ AllocLoadCount(t)
  \/ AllocLoadHead(t)
  \/ AllocReadNext(t)
  \/ AllocCASOk(t)
  \/ AllocCASFail(t)
  \/ AddPageLock(t)
  \/ AddPageCheck(t)
  \/ AddPageAlloc(t)
  \/ AddPageInc(t)
  \/ PushLoad(t)
  \/ PushLink(t)
  \/ PushCASOk(t)
  \/ PushCASFail(t)

\* ------------------------------------------------------- opool::ObjectPool
\* ObjectPool<T, Size> has the pop / push / free of the raw allocator and the allocate of
\* the typed one; its addPage differs in the order of its steps:
\*   if (oldPageCount != pageCount_) return;  ++pageCount_;
\*   pages_.push_back(std::make_unique<Page>());  push(head, tail);
PoolAddPageCount(t) ==
  /\ th[t].pc = "o_inc"
  /\ raw' = [raw EXCEPT ![th[t].s].pageCount_ = NextPageCount(@)]
  /\ th' = [th EXCEPT ![t].pc = "p_alloc"]
  /\ UNCHANGED <<mem, reg, outcome, calls, work>>

\* push has returned; addPage returns and the lock_guard releases the mutex.
PoolAddPageReturn(t) ==
  /\ th[t].pc = "o_ret"
  /\ raw' = [raw EXCEPT ![th[t].s].allocationMutex_ = LockGuardEnds(t)]
  /\ th' = [th EXCEPT ![t].pc = AfterAddPage]
  /\ UNCHANGED <<mem, reg, outcome, calls, work>>

PoolStep(t) ==
  \/ PoolAddPageCount(t)
  \/ PoolAddPageReturn(t)

\* ------------------------------------------------ typed allocate / free
\* ThrowableCtor(bool throwException) throws CustomError when asked to; no other
\* constructor of the test types throws.
CtorThrows(T, arg) == T = "ThrowableCtor" /\ arg

\* try { return ::new(bytePtr) T(args...); }
\* catch (...) { rawStorage_->free(bytePtr); throw; }
\* (SegregatedStorage<T>::allocate and SegregatedMultiStorage::allocate<T> alike); inside
\* allocateUnique / allocateShared the returned pointer is wrapped next.
Construct(t) ==
  LET c == th[t].ptr
  IN /\ th[t].pc = "t_ctor"
     /\ IF CtorThrows(th[t].T, th[t].arg)
          THEN /\ th' = [th EXCEPT ![t].exc = "CustomError", ![t].head = c, ![t].tail = c,
                                   ![t].ptr = NULL, ![t].after = "rethrow", ![t].pc = "u_load"]
               /\ UNCHANGED <<live, obj, outcome>>
          ELSE /\ th' = [th EXCEPT ![t] = IF th[t].own = "none" THEN Idle
                                            ELSE [th[t] EXCEPT !.pc = "h_make"]]
               /\ obj' = [obj EXCEPT ![c] = th[t].T]
               /\ live' = [live EXCEPT ![c] = @ + 1]
               /\ outcome' = [outcome EXCEPT ![t].kind = "object", ![t].chunk = c,
                                             ![t].s = th[t].s]
     /\ UNCHANGED <<raw, next, reg, calls, work>>

\* The registry key of a type: std::make_pair(sizeof(T), alignof(T)).
KeyOfSizeOnly(T) == <<SizeOf(T), 0>>
KeyOf(T) == <<SizeOf(T), AlignOf(T)>>

\* std::destroy_at(ptr); then SegregatedStorage<T>::free hands the chunk to rawStorage_,
\* SegregatedMultiStorage::free<T> first looks its storage up.
Destroy(t) ==
  /\ th[t].pc = "t_dtor"
  /\ obj' = [obj EXCEPT ![th[t].ptr] = NoType]
  /\ th' = [th EXCEPT ![t].head = th[t].ptr, ![t].tail = th[t].ptr, ![t].ptr = NULL,
                      ![t].after = "free",
                      ![t].pc = IF th[t].via = "multi" THEN "f_find" ELSE "u_load"]
  /\ UNCHANGED <<raw, next, live, reg, outcome, calls, work>>

\* --------------------------------------------------- SegregatedMultiStorage
\* The PageSize template argument of the registry: two chunks of a Bucket1 per page.
RegistryPageSize == 2 * ItemSize(SizeOf("Bucket1"), AlignOf("Bucket1"))

\* findStorage<T>: std::shared_lock lock(mutex_);
FindLock(t) ==
  /\ th[t].pc = "r_lock"
  /\ mutex_.writer = 0
  /\ mutex_' = [mutex_ EXCEPT !.readers = @ \cup {t}]
  /\ th' = [th EXCEPT ![t].pc = "r_find"]
  /\ UNCHANGED <<raw, mem, storage_, destroyed, outcome, calls, work>>

\* allocate<T>: if (!storage) { storage = createStorage<T>(); } then storage->allocate().
AfterFindAlwaysCreates(found) == "c_lock"
AfterFind(found) == IF found = 0 THEN "c_lock" ELSE "a_loadCount"

\* findStorage<T>: storage_.find(key), nullptr when absent; allocate<T> then calls
\* createStorage<T> if (!storage).
Find(t) ==
  LET key == KeyOf(th[t].T)
      found == IF key \in DOMAIN storage_ THEN storage_[key] ELSE 0
  IN /\ th[t].pc = "r_find"
     /\ mutex_' = [mutex_ EXCEPT !.readers = @ \ {t}]
     /\ th' = [th EXCEPT ![t].s = found, ![t].pc = AfterFind(found)]
     /\ UNCHANGED <<raw, mem, storage_, destroyed, outcome, calls, work>>

\* createStorage<T>: std::unique_lock lock(mutex_);
CreateLock(t) ==
  /\ th[t].pc = "c_lock"
  /\ mutex_.writer = 0
  /\ mutex_.readers = {}
  /\ mutex_' = [mutex_ EXCEPT !.writer = t]
  /\ th' = [th EXCEPT ![t].pc = "c_emplace"]
  /\ UNCHANGED <<raw, mem, storage_, destroyed, outcome, calls, work>>

\* storage_.emplace(key, std::make_unique<Storage>()): the new storage is constructed
\* first; emplace keeps an entry that is already there, and the new storage is then
\* destructed with the unique_ptr that was not inserted.
EmplaceAssigns(map, key, n) == (key :> n) @@ map
EmplaceAlone(map, key, n) == IF key \in DOMAIN map THEN map ELSE (key :> n)
Emplace(map, key, n) == IF key \in DOMAIN map THEN map ELSE (key :> n) @@ map

CreateEmplace(t) ==
  LET key == KeyOf(th[t].T)
      n == Len(raw) + 1
      map == Emplace(storage_, key, n)
  IN /\ th[t].pc = "c_emplace"
     /\ raw' = Append(raw, NewStorage("fixed", SizeOf(th[t].T), AlignOf(th[t].T), RegistryPageSize))
     /\ storage_' = map
     /\ destroyed' = destroyed \cup ({n} \ {map[k] : k \in DOMAIN map})
                               \cup ({storage_[k] : k \in DOMAIN storage_} \ {map[k] : k \in DOMAIN map})
     /\ th' = [th EXCEPT ![t].s = map[key], ![t].pc = "c_return"]
     /\ UNCHANGED <<mem, mutex_, outcome, calls, work>>

\* return it.first->second.get(); the unique_lock is released.
CreateReturn(t) ==
  /\ th[t].pc = "c_return"
  /\ mutex_' = [mutex_ EXCEPT !.writer = 0]
  /\ th' = [th EXCEPT ![t].pc = "a_loadCount"]
  /\ UNCHANGED <<raw, mem, storage_, destroyed, outcome, calls, work>>

\* free<T>: auto storageIter = storage_.find(key); storageIter->second->free(bytePtr);
\* (no lock is taken)
FreeFind(t) ==
  /\ th[t].pc = "f_find"
  /\ KeyOf(th[t].T) \in DOMAIN storage_
  /\ th' = [th EXCEPT ![t].s = storage_[KeyOf(th[t].T)], ![t].pc = "u_load"]
  /\ UNCHANGED <<raw, mem, reg, outcome, calls, work>>

\* free<T> runs storage_.find(key) without mutex_ while another thread is inside
\* createStorage<T> and inserts into storage_: a data race on the map.  Besides the
\* lookup that succeeds (FreeFind), the lookup can miss or walk a bucket array that is
\* being replaced, and storageIter->second is then an invalid access: the process dies.
FreeFindRace(t) ==
  /\ th[t].pc = "f_find"
  /\ mutex_.writer # 0
  /\ th' = [u \in DOMAIN th |-> [th[u] EXCEPT !.pc = "crashed"]]
  /\ outcome' = [outcome EXCEPT ![t].kind = "crash"]
  /\ UNCHANGED <<raw, mem, reg, calls, work>>

\* The steps of a typed call outside the raw allocator.
TypedStep(t) ==
  \/ Construct(t)
  \/ Destroy(t)

RegistryStep(t) ==
  \/ FindLock(t)
  \/ Find(t)
  \/ CreateLock(t)
  \/ CreateEmplace(t)
  \/ CreateReturn(t)
  \/ FreeFind(t)

\* ----------------------------------------------------------------- callers
Chunks == 1..Len(next)

RECURSIVE Sum(_)
Sum(q) == IF q = << >> THEN 0 ELSE Head(q) + Sum(Tail(q))

TotalCalls == Sum(calls)
TotalLive == Sum(live)
AllIdle == \A t \in DOMAIN th : th[t].pc = "idle"

FreeCount(s) == Cardinality(FreeSet(s))
PageCount(s) == Len(raw[s].pageHead_)

\* The storage that serves type T through a facade, 0 if there is none yet.
StorageFor(via, T) ==
  IF via = "multi"
    THEN IF KeyOf(T) \in DOMAIN storage_ THEN storage_[KeyOf(T)] ELSE 0
    ELSE 1

\* What a caller notes before a typed call.
Noted(via, T) ==
  LET s == StorageFor(via, T)
  IN [NoOutcome EXCEPT !.kind = "pending",
                       !.freeBefore = IF s = 0 THEN 0 ELSE FreeCount(s),
                       !.pagesBefore = IF s = 0 THEN 0 ELSE PageCount(s)]

\* A thread calls RawSegregatedStorage::allocate() on storage s.
CallAllocate(t, s) ==
  /\ th[t].pc = "idle"
  /\ th' = [th EXCEPT ![t] = [Idle EXCEPT !.pc = "a_loadCount", !.s = s]]
  /\ outcome' = [outcome EXCEPT ![t] = NoOutcome]
  /\ calls' = [calls EXCEPT ![t] = @ + 1]
  /\ UNCHANGED <<raw, mem, reg, work>>

\* A thread calls RawSegregatedStorage::free(ptr) for a chunk c that a caller holds:
\* ptr -= offsetof(Item, body); push(item, item);
CallFree(t, s, c) ==
  /\ th[t].pc = "idle"
  /\ live[c] > 0
  /\ live' = [live EXCEPT ![c] = @ - 1]
  /\ th' = [th EXCEPT ![t] = [Idle EXCEPT !.pc = "u_load", !.s = s, !.head = c,
                                         !.tail = c, !.after = "free"]]
  /\ outcome' = [outcome EXCEPT ![t] = NoOutcome]
  /\ calls' = [calls EXCEPT ![t] = @ + 1]
  /\ UNCHANGED <<raw, next, obj, reg, work>>

\* A thread calls allocate(args...) of SegregatedStorage<T> (via = "single", whose
\* rawStorage_ is storage 1) or allocate<T>(args...) of SegregatedMultiStorage.
CallTypedAllocate(t, via, T, arg) ==
  /\ th[t].pc = "idle"
  /\ th' = [th EXCEPT ![t] = [Idle EXCEPT !.via = via, !.T = T, !.arg = arg,
                                         !.s = IF via = "single" THEN 1 ELSE 0,
                                         !.pc = IF via = "single" THEN "a_loadCount" ELSE "r_lock"]]
  /\ outcome' = [outcome EXCEPT ![t] = Noted(via, T)]
  /\ calls' = [calls EXCEPT ![t] = @ + 1]
  /\ UNCHANGED <<raw, mem, reg>>

\* A thread calls free(ptr) of a typed allocator for the live object in chunk c.
CallTypedFree(t, via, c) ==
  /\ th[t].pc = "idle"
  /\ live[c] > 0
  /\ obj[c] # NoType
  /\ live' = [live EXCEPT ![c] = @ - 1]
  /\ th' = [th EXCEPT ![t] = [Idle EXCEPT !.via = via, !.T = obj[c], !.ptr = c,
                                         !.s = IF via = "single" THEN 1 ELSE 0,
                                         !.pc = "t_dtor"]]
  /\ outcome' = [outcome EXCEPT ![t] = Noted(via, obj[c])]
  /\ calls' = [calls EXCEPT ![t] = @ + 1]
  /\ UNCHANGED <<raw, next, obj, reg>>

\* -------------------------------------------------------------- owning handles
\* A thread calls allocateUnique(args...) or allocateShared(args...):
\* return UPtr(allocate<Args...>(args...), Deleter { this }); (SPtr likewise).
CallAllocateOwned(t, via, T, arg, own) ==
  /\ th[t].pc = "idle"
  /\ th' = [th EXCEPT ![t] = [Idle EXCEPT !.via = via, !.T = T, !.arg = arg, !.own = own,
                                         !.s = IF via = "single" THEN 1 ELSE 0,
                                         !.pc = IF via = "single" THEN "a_loadCount" ELSE "r_lock"]]
  /\ outcome' = [outcome EXCEPT ![t] = Noted(via, T)]
  /\ calls' = [calls EXCEPT ![t] = @ + 1]
  /\ UNCHANGED <<raw, mem, reg>>

\* UPtr(ptr, Deleter { this }) / SPtr(ptr, Deleter { this }): the handle owns ptr, with one
\* reference, and remembers the allocator it came from.
MakeHandle(t) ==
  /\ th[t].pc = "h_make"
  /\ work' = [work EXCEPT !.handles = Append(@, [ptr |-> th[t].ptr, own |-> th[t].own,
                                                 via |-> th[t].via, T |-> th[t].T, refs |-> 1])]
  /\ th' = [th EXCEPT ![t] = Idle]
  /\ UNCHANGED <<raw, mem, reg, outcome, calls>>

\* A caller copies a shared handle (std::shared_ptr's use count).
CopyHandle(t, i) ==
  /\ th[t].pc = "idle"
  /\ work.handles[i].own = "shared"
  /\ work.handles[i].refs \in 1..(MaxRefs - 1)
  /\ work' = [work EXCEPT !.handles[i].refs = @ + 1]
  /\ UNCHANGED <<raw, mem, reg, th, outcome, calls>>

\* The handle that runs the deleter: the unique handle, or the last shared reference.
EveryReference(refs) == refs >= 1
LastReference(refs) == refs = 1

\* A caller lets go of a handle; Deleter::operator()(ptr) { allocator->free(ptr); } runs
\* for the last reference.
ReleaseHandle(t, i) ==
  LET h == work.handles[i]
  IN /\ h.refs > 0
     /\ IF LastReference(h.refs)
          THEN CallTypedFree(t, h.via, h.ptr)
          ELSE /\ th[t].pc = "idle"
               /\ UNCHANGED <<raw, mem, reg, th, outcome, calls>>
     /\ work' = [work EXCEPT !.handles[i].refs = @ - 1]

\* ------------------------------------------- pool::ObjectPool (src/object_pool.h)
\* The two versions of the first ObjectPool<T, Size>: policy "pool_head" is the one whose
\* newPage is gated on the stack head, policy "pool_count" the one with the page counter.
\* Both have the same pop loop:
\*   do { if (oldHead == nullptr) { newPage(); oldHead = free_.load(); continue; }
\*        nextHead = oldHead->next;
\*   } while (!free_.compare_exchange_weak(oldHead, nextHead));
LegacyPolicies == {"pool_head", "pool_count"}

LegacyStorage(policy, T, k) ==
  NewStorage(policy, SizeOf(T), AlignOf(T), k * ItemSize(SizeOf(T), AlignOf(T)))

\* The top of the loop body, and where "continue" leads in a do-while: to the loop
\* condition, which is the compare-exchange.
LegacyLoopTop(oldHead) == IF oldHead = NULL THEN "l_lock" ELSE "l_readNext"
AfterContinue == "l_cas"

\* A thread calls ObjectPool::allocate(): auto itemPtr = pop();
CallPoolAllocate(t, s) ==
  /\ th[t].pc = "idle"
  /\ th' = [th EXCEPT ![t] = [Idle EXCEPT !.via = "pool", !.T = "TestClass", !.s = s,
                                         !.pc = IF raw[s].policy = "pool_count"
                                                  THEN "l_loadCount" ELSE "l_loadHead"]]
  /\ outcome' = [outcome EXCEPT ![t] = [NoOutcome EXCEPT !.kind = "pending", !.s = s,
                                                         !.pagesBefore = Len(raw[s].pageHead_)]]
  /\ calls' = [calls EXCEPT ![t] = @ + 1]
  /\ UNCHANGED <<raw, mem, reg, work>>

\* auto pageCount = pageCount_.load();  before the loop and after addPage.
LegacyLoadCount(t) ==
  /\ th[t].pc \in {"l_loadCount", "l_reloadCount"}
  /\ th' = [th EXCEPT ![t].pageCount = raw[th[t].s].pageCount_,
                      ![t].pc = IF th[t].pc = "l_loadCount" THEN "l_loadHead" ELSE "l_reloadHead"]
  /\ UNCHANGED <<raw, mem, reg, outcome, calls, work>>

\* auto oldHead = free_.load();  before the loop, and, followed by continue, after newPage.
LegacyLoadHead(t) ==
  /\ th[t].pc \in {"l_loadHead", "l_reloadHead"}
  /\ th' = [th EXCEPT ![t].oldHead = raw[th[t].s].freeItems_,
                      ![t].order = LoadOrder,
                      ![t].pc = IF th[t].pc = "l_loadHead"
                                  THEN LegacyLoopTop(raw[th[t].s].freeItems_)
                                  ELSE AfterContinue]
  /\ UNCHANGED <<raw, mem, reg, outcome, calls, work>>

\* nextHead = oldHead->next;
LegacyReadNext(t) ==
  /\ th[t].pc = "l_readNext"
  /\ th' = [th EXCEPT ![t].nextHead = next[th[t].oldHead], ![t].pc = "l_cas"]
  /\ UNCHANGED <<raw, mem, reg, outcome, calls, work>>

\* free_.compare_exchange_weak(oldHead, nextHead) succeeds; pop returns oldHead.
LegacyCASOk(t) ==
  /\ th[t].pc = "l_cas"
  /\ raw[th[t].s].freeItems_ = th[t].oldHead
  /\ raw' = [raw EXCEPT ![th[t].s].freeItems_ = th[t].nextHead]
  /\ th' = [th EXCEPT ![t].ptr = th[t].oldHead, ![t].pc = "l_ctor", ![t].pageCount = 0,
                      ![t].oldHead = NULL, ![t].order = "none", ![t].nextHead = NULL]
  /\ UNCHANGED <<mem, reg, outcome, calls, work>>

\* The compare-exchange fails (or fails spuriously): oldHead takes the current head and
\* the loop body runs again.
LegacyCASFail(t) ==
  /\ th[t].pc = "l_cas"
  /\ th' = [th EXCEPT ![t].oldHead = raw[th[t].s].freeItems_,
                      ![t].order = FailureOrder(raw[th[t].s].policy),
                      ![t].pc = LegacyLoopTop(raw[th[t].s].freeItems_)]
  /\ UNCHANGED <<raw, mem, reg, outcome, calls, work>>

\* newPage / addPage: std::lock_guard<std::mutex> lock(allocationMutex_);
LegacyLock(t) ==
  /\ th[t].pc = "l_lock"
  /\ raw[th[t].s].allocationMutex_ = 0
  /\ raw' = [raw EXCEPT ![th[t].s].allocationMutex_ = t]
  /\ th' = [th EXCEPT ![t].pc = "l_check"]
  /\ UNCHANGED <<mem, reg, outcome, calls, work>>

\* if (free_ != nullptr) return;               (newPage)
\* if (oldPageCount != pageCount_) return;     (addPage)
LegacySkip(policy, head, oldPageCount, pageCount) ==
  IF policy = "pool_head" THEN head # NULL ELSE oldPageCount # pageCount

LegacyCheck(t) ==
  LET s == th[t].s
  IN /\ th[t].pc = "l_check"
     /\ IF LegacySkip(raw[s].policy, raw[s].freeItems_, th[t].pageCount, raw[s].pageCount_)
          THEN /\ raw' = [raw EXCEPT ![s].allocationMutex_ = 0]
               /\ th' = [th EXCEPT ![t].pc = IF raw[s].policy = "pool_count"
                                               THEN "l_reloadCount" ELSE "l_reloadHead"]
          ELSE /\ th' = [th EXCEPT ![t].pc = IF raw[s].policy = "pool_count"
                                               THEN "l_inc" ELSE "l_newPage"]
               /\ UNCHANGED raw
     /\ UNCHANGED <<mem, reg, outcome, calls, work>>

\* ++pageCount_;  (addPage, before the page exists)
LegacyInc(t) ==
  /\ th[t].pc = "l_inc"
  /\ raw' = [raw EXCEPT ![th[t].s].pageCount_ = NextPageCount(@)]
  /\ th' = [th EXCEPT ![t].pc = "l_newPage"]
  /\ UNCHANGED <<mem, reg, outcome, calls, work>>

\* ObjectPoolPage(): the first version links items_[i] to items_[i - 1] and its head() is
\* the last item; the counter version links items_[i - 1] to items_[i], head() the first.
LegacyPageInit(policy, base, n) ==
  IF policy = "pool_head"
    THEN [i \in 1..n |-> IF i = 1 THEN NULL ELSE base + i - 1]
    ELSE PageInit(base, n)

LegacyPageHead(policy, base, n) == IF policy = "pool_head" THEN base + n ELSE base + 1
LegacyPageTail(policy, base, n) == IF policy = "pool_head" THEN base + 1 ELSE base + n

\* pages_.push_front(std::make_unique<ObjectPoolPage<T, Size>>());
LegacyNewPage(t) ==
  LET s == th[t].s
      n == ItemCount(raw[s].policy, raw[s].Size, raw[s].Alignment, raw[s].pageSize_)
      base == Len(next)
      page == [first |-> base + 1, count |-> n, bytes |-> raw[s].pageSize_,
               round |-> th[t].pageCount]
  IN /\ th[t].pc = "l_newPage"
     /\ next' = next \o LegacyPageInit(raw[s].policy, base, n)
     /\ live' = live \o [i \in 1..n |-> 0]
     /\ obj' = obj \o [i \in 1..n |-> NoType]
     /\ raw' = [raw EXCEPT ![s].pageHead_ = LinkPage(page, @)]
     /\ th' = [th EXCEPT ![t].head = LegacyPageHead(raw[s].policy, base, n),
                         ![t].tail = LegacyPageTail(raw[s].policy, base, n),
                         ![t].after = IF raw[s].policy = "pool_count" THEN "l_ret" ELSE "none",
                         ![t].pc = IF raw[s].policy = "pool_count" THEN "u_load" ELSE "l_store"]
     /\ UNCHANGED <<reg, outcome, calls, work>>

\* free_ = pages_.front()->head();  then newPage returns and the mutex is released.
LegacyStore(t) ==
  /\ th[t].pc = "l_store"
  /\ raw' = [raw EXCEPT ![th[t].s].freeItems_ = th[t].head, ![th[t].s].allocationMutex_ = 0]
  /\ th' = [th EXCEPT ![t].pc = "l_reloadHead", ![t].head = NULL, ![t].tail = NULL]
  /\ UNCHANGED <<mem, reg, outcome, calls, work>>

\* push(head, tail) has returned; addPage returns and the mutex is released.
LegacyAddPageReturn(t) ==
  /\ th[t].pc = "l_ret"
  /\ raw' = [raw EXCEPT ![th[t].s].allocationMutex_ = 0]
  /\ th' = [th EXCEPT ![t].pc = "l_reloadCount"]
  /\ UNCHANGED <<mem, reg, outcome, calls, work>>

\* T* objPtr = std::launder(reinterpret_cast<T*>(itemPtr->body)); ::new(objPtr) T();
\* With itemPtr == nullptr the placement new writes to offsetof(Item, body): the process
\* is stopped by the access violation.
LegacyConstruct(t) ==
  LET c == th[t].ptr
  IN /\ th[t].pc = "l_ctor"
     /\ th' = [th EXCEPT ![t] = Idle]
     /\ IF c = NULL
          THEN /\ outcome' = [outcome EXCEPT ![t].kind = "null", ![t].chunk = NULL]
               /\ work' = [work EXCEPT !.phase = "crashed"]
               /\ UNCHANGED <<live, obj>>
          ELSE /\ obj' = [obj EXCEPT ![c] = th[t].T]
               /\ live' = [live EXCEPT ![c] = @ + 1]
               /\ outcome' = [outcome EXCEPT ![t].kind = "chunk", ![t].chunk = c]
               /\ work' = [work EXCEPT !.ctors = @ + 1]
     /\ UNCHANGED <<raw, next, reg, calls>>

\* A thread calls ObjectPool::free(ptr) for the live object in chunk c.
CallPoolFree(t, s, c) ==
  /\ th[t].pc = "idle"
  /\ live[c] > 0
  /\ obj[c] # NoType
  /\ live' = [live EXCEPT ![c] = @ - 1]
  /\ th' = [th EXCEPT ![t] = [Idle EXCEPT !.via = "pool", !.T = obj[c], !.s = s, !.ptr = c,
                                         !.pc = "l_dtor"]]
  /\ outcome' = [outcome EXCEPT ![t] = [NoOutcome EXCEPT !.kind = "pending", !.s = s,
                                                         !.pagesBefore = Len(raw[s].pageHead_)]]
  /\ calls' = [calls EXCEPT ![t] = @ + 1]
  /\ UNCHANGED <<raw, next, obj, reg, work>>

\* std::destroy_at(ptr); ... push(itemPtr) / push(itemPtr, itemPtr);
LegacyDestroy(t) ==
  /\ th[t].pc = "l_dtor"
  /\ obj' = [obj EXCEPT ![th[t].ptr] = NoType]
  /\ work' = [work EXCEPT !.dtors = @ + 1]
  /\ th' = [th EXCEPT ![t].head = th[t].ptr, ![t].tail = th[t].ptr, ![t].ptr = NULL,
                      ![t].after = "free", ![t].pc = "u_load"]
  /\ UNCHANGED <<raw, next, live, reg, outcome, calls>>

\* ~ObjectPool(): ItemPtr item = free_;  The owner destroys the pool when no call runs.
LegacyDtorBegin(t, s) ==
  /\ AllIdle
  /\ s \notin destroyed
  /\ th' = [th EXCEPT ![t] = [Idle EXCEPT !.via = "pool", !.s = s, !.ptr = raw[s].freeItems_,
                                         !.pc = "ld_loop"]]
  /\ UNCHANGED <<raw, mem, reg, outcome, calls, work>>

\* while (item) { std::destroy_at(launder(reinterpret_cast<T*>(item->body))); item = item->next; }
\* On a free stack that has become cyclic the loop does not end; the walk is followed for
\* MaxLegacyDtors destructor calls.
LegacyDtorDestroy(t) ==
  /\ th[t].pc = "ld_loop"
  /\ th[t].ptr # NULL
  /\ work.dtors < MaxLegacyDtors
  /\ obj' = [obj EXCEPT ![th[t].ptr] = NoType]
  /\ work' = [work EXCEPT !.dtors = @ + 1]
  /\ th' = [th EXCEPT ![t].ptr = next[th[t].ptr]]
  /\ UNCHANGED <<raw, next, live, reg, outcome, calls>>

\* item == nullptr: the body ends; pages_ is destroyed and with it every page.
LegacyDtorEnd(t) ==
  /\ th[t].pc = "ld_loop"
  /\ th[t].ptr = NULL
  /\ destroyed' = destroyed \cup {th[t].s}
  /\ th' = [th EXCEPT ![t] = Idle]
  /\ UNCHANGED <<raw, mem, storage_, mutex_, outcome, calls, work>>

LegacyStep(t) ==
  \/ LegacyLoadCount(t)
  \/ LegacyLoadHead(t)
  \/ LegacyReadNext(t)
  \/ LegacyCASOk(t)
  \/ LegacyCASFail(t)
  \/ LegacyLock(t)
  \/ LegacyCheck(t)
  \/ LegacyInc(t)
  \/ LegacyNewPage(t)
  \/ LegacyStore(t)
  \/ LegacyAddPageReturn(t)
  \/ LegacyConstruct(t)
  \/ LegacyDestroy(t)
  \/ LegacyDtorDestroy(t)
  \/ LegacyDtorEnd(t)
  \/ PushLoad(t)
  \/ PushLink(t)
  \/ PushCASOk(t)
  \/ PushCASFail(t)

\* ------------------------------------- RawSegregatedStorage::~RawSegregatedStorage
\* The owner destroys allocator s once every call on it has returned.  work.released is
\* the memory provider's list of the pages handed back to it.
Usable(s) == s \notin destroyed /\ \A t \in DOMAIN th : ~(th[t].pc = "d_loop" /\ th[t].s = s)

DtorBegin(t, s) ==
  /\ AllIdle
  /\ Usable(s)
  /\ th' = [th EXCEPT ![t] = [Idle EXCEPT !.pc = "d_loop", !.s = s]]
  /\ UNCHANGED <<raw, mem, reg, outcome, calls, work>>

\* auto next = pageHead_->nextPage(); ... pageHead_ = next;
SkipsAPage(pages) == IF Len(pages) > 1 THEN Tail(Tail(pages)) ELSE << >>
NextPageOf(pages) == Tail(pages)

\* One round of while (pageHead_): Page::free(pageHead_) (delete pagesHead_ in the
\* template version) hands the head page back; no destructor of a chunk's object runs.
DtorFreePage(t) ==
  LET s == th[t].s
  IN /\ th[t].pc = "d_loop"
     /\ raw[s].pageHead_ # << >>
     /\ work' = [work EXCEPT !.released = Append(@, Head(raw[s].pageHead_))]
     /\ raw' = [raw EXCEPT ![s].pageHead_ = NextPageOf(@)]
     /\ UNCHANGED <<mem, reg, th, outcome, calls>>

\* pageHead_ == nullptr: the loop and the destructor end.
DtorEnd(t) ==
  /\ th[t].pc = "d_loop"
  /\ raw[th[t].s].pageHead_ = << >>
  /\ destroyed' = destroyed \cup {th[t].s}
  /\ th' = [th EXCEPT ![t] = Idle]
  /\ UNCHANGED <<raw, mem, storage_, mutex_, outcome, calls, work>>

DtorStep(t) ==
  \/ DtorFreePage(t)
  \/ DtorEnd(t)

\* ------------------------------------------------------------ specifications
NoWork == [phase |-> "mixed", facade |-> "raw", plan |-> 0, mark |-> 0,
           hist |-> << >>, objects |-> << >>, handles |-> << >>, released |-> << >>,
           ctors |-> 0, dtors |-> 0, op |-> "none", index |-> << >>]

InitWith(n) ==
  /\ next = << >>
  /\ live = << >>
  /\ obj = << >>
  /\ storage_ = << >>
  /\ mutex_ = [writer |-> 0, readers |-> {}]
  /\ destroyed = {}
  /\ th = [t \in 1..n |-> Idle]
  /\ outcome = [t \in 1..n |-> NoOutcome]
  /\ calls = [t \in 1..n |-> 0]

\* RawSegregatedStorage<Size, Alignment, PageSize>() with PageSize = k items, and
\* RawSegregatedStorage<Size, Alignment>(pageSize) with pageSize = (k - 1) items + one Page
\* as the tests compute it: both start with pages of k chunks.
FixedStorage(T, k) ==
  NewStorage("fixed", SizeOf(T), AlignOf(T), k * ItemSize(SizeOf(T), AlignOf(T)))
GrowingStorage(T, k) ==
  NewStorage("growing", SizeOf(T), AlignOf(T),
             (k - 1) * ItemSize(SizeOf(T), AlignOf(T)) + PageBytes(SizeOf(T), AlignOf(T)))

PoolStorage(T, k) ==
  NewStorage("opool", SizeOf(T), AlignOf(T), k * ItemSize(SizeOf(T), AlignOf(T)))

\* RawSegregatedStorage<Size, Alignment>(pageSize) with pageSize one byte short of a Page:
\* the constructor stores any pageSize.
TooSmallStorage(T) ==
  NewStorage("growing", SizeOf(T), AlignOf(T), PageBytes(SizeOf(T), AlignOf(T)) - 1)

RawConfigs == {FixedStorage("TestClass", 2), GrowingStorage("TestClass", 2)}

\* Spec: one raw allocator of either page-size policy, used by every thread for up to
\* MaxOps allocate()/free() calls in any order; free() is given any chunk a caller holds.
Init ==
  /\ InitWith(NumThreads)
  /\ \E r \in RawConfigs : raw = <<r>>
  /\ work = NoWork

Next ==
  \E t \in DOMAIN th :
    \/ calls[t] < MaxOps /\ CallAllocate(t, 1)
    \/ \E c \in Chunks : calls[t] < MaxOps /\ CallFree(t, 1, c)
    \/ RawStep(t)

Spec == Init /\ [][Next]_vars

\* SpecProgress: Spec with the scheduling the threads run under: a thread inside a call
\* keeps taking steps, and a compare_exchange_weak that could succeed again and again does
\* not fail spuriously for ever.  Callers are free to stop issuing calls.
Fairness ==
  \A t \in Threads :
    /\ WF_vars(RawStep(t))
    /\ SF_vars(AllocCASOk(t))
    /\ SF_vars(PushCASOk(t))

SpecProgress == Init /\ [][Next]_vars /\ Fairness

\* SpecLayout: one thread makes up to MaxLayoutOps allocate()/free() calls on a
\* RawSegregatedStorage of either page-size policy, instantiated for each chunk size and
\* alignment of LayoutSizes and LayoutAlignments and for page sizes around one and two
\* chunks.
LayoutSizes == {1, 12, 256}
LayoutAlignments == {1, 4, 16, 256}

LayoutPageSizes(policy, Size, Alignment) ==
  LET item == ItemSize(Size, Alignment)
  IN IF policy = "fixed"
       THEN {item, 2 * item - 1, 2 * item}
       ELSE {PageBytes(Size, Alignment) + e : e \in {0, item - 1, item, item + 1}}

InitLayout ==
  /\ InitWith(1)
  /\ \E policy \in {"fixed", "growing"}, Size \in LayoutSizes, Alignment \in LayoutAlignments :
       \E pageSize \in LayoutPageSizes(policy, Size, Alignment) :
         raw = <<NewStorage(policy, Size, Alignment, pageSize)>>
  /\ work = NoWork

NextLayout ==
  \E t \in DOMAIN th :
    \/ calls[t] < MaxLayoutOps /\ CallAllocate(t, 1)
    \/ \E c \in Chunks : calls[t] < MaxLayoutOps /\ CallFree(t, 1, c)
    \/ RawStep(t)

SpecLayout == InitLayout /\ [][NextLayout]_vars

\* SpecGrowth: the fixed-page allocator with N = 2 chunks per page; P * N allocate()
\* calls in total are issued by NumThreads + 1 threads and nothing is freed.
GrowthItems == ItemCount("fixed", SizeOf("TestClass"), AlignOf("TestClass"), FixedStorage("TestClass", 2).pageSize_)

InitGrowth ==
  /\ InitWith(NumThreads + 1)
  /\ raw = <<FixedStorage("TestClass", 2)>>
  /\ \E P \in 1..GrowthPages : work = [NoWork EXCEPT !.phase = "grow", !.plan = P * GrowthItems]

NextGrowth ==
  \E t \in DOMAIN th :
    \/ TotalCalls < work.plan /\ CallAllocate(t, 1)
    \/ RawStep(t)

SpecGrowth == InitGrowth /\ [][NextGrowth]_vars

\* SpecMerge: thread 1 allocates the GrowthItems chunks of the first page one call after
\* the other, then calls allocate() once more, which finds the list empty unless a free
\* got there first; from the end of the filling on the other threads free() those chunks.
Filled == calls[1] > GrowthItems \/ (calls[1] = GrowthItems /\ th[1].pc = "idle")

InitMerge ==
  /\ InitWith(NumThreads + 1)
  /\ \E r \in RawConfigs : raw = <<r>>
  /\ work = [NoWork EXCEPT !.phase = "merge"]

NextMerge ==
  \E t \in DOMAIN th :
    \/ t = 1 /\ calls[t] <= GrowthItems /\ CallAllocate(t, 1)
    \/ \E c \in Chunks : t # 1 /\ Filled /\ c <= GrowthItems /\ CallFree(t, 1, c)
    \/ RawStep(t)

SpecMerge == InitMerge /\ [][NextMerge]_vars

\* SpecDoubling: the run-time-page-size allocator, configured for one or two small chunks
\* per page or for one chunk of a quarter of the provider's limit; MaxDoublingOps
\* allocate() calls in total are issued by the threads, nothing is freed, and the memory
\* provider may refuse any page request.  mark keeps the configured page size.
DoublingConfigs ==
  { GrowingStorage("TestClass", 1), GrowingStorage("TestClass", 2),
    NewStorage("growing", MaxRequest \div 4, PointerSize,
               PageBytes(MaxRequest \div 4, PointerSize)) }

InitDoubling ==
  /\ InitWith(NumThreads)
  /\ \E r \in DoublingConfigs :
       /\ raw = <<r>>
       /\ work = [NoWork EXCEPT !.phase = "doubling", !.mark = r.pageSize_]

NextDoubling ==
  \E t \in DOMAIN th :
    \/ TotalCalls < MaxDoublingOps /\ CallAllocate(t, 1)
    \/ RawStep(t)
    \/ AddPageAllocFails(t)

SpecDoubling == InitDoubling /\ [][NextDoubling]_vars

\* SpecTeardown: a SegregatedStorage<TestClass> of either page-size policy, with one or
\* two chunks in the first page, serves MaxTeardownOps allocate(args...)/free(ptr) calls
\* of the threads at most; then, at any moment when no call is running, thread 1 destroys
\* it, objects still alive or not; no call is made on it from then on.  The thread that runs the destructor keeps running.
TeardownConfigs == RawConfigs \cup {GrowingStorage("TestClass", 1)}

InitTeardown ==
  /\ InitWith(NumThreads)
  /\ \E r \in TeardownConfigs : raw = <<r>>
  /\ work = [NoWork EXCEPT !.phase = "teardown", !.facade = "single"]

NextTeardown ==
  \/ DtorBegin(1, 1)
  \/ \E t \in DOMAIN th :
       \/ /\ TotalCalls < MaxTeardownOps /\ Usable(1)
          /\ CallTypedAllocate(t, "single", "TestClass", FALSE)
          /\ UNCHANGED work
       \/ /\ TotalCalls < MaxTeardownOps /\ Usable(1)
          /\ \E c \in Chunks : CallTypedFree(t, "single", c)
          /\ UNCHANGED work
       \/ RawStep(t)
       \/ TypedStep(t)
       \/ DtorStep(t)

SpecTeardown == InitTeardown /\ [][NextTeardown]_vars /\ WF_vars(DtorStep(1))

\* SpecLegacy: a pool::ObjectPool<BasicClass, Size> of either version (BasicClass has the
\* layout of TestClass) with two items per page serves MaxLegacyOps allocate()/free(ptr)
\* calls of the threads at most; at any moment when no call is running thread 1 may
\* destroy it.  Nothing runs once a thread has written through a null item pointer.
InitLegacy ==
  /\ InitWith(NumThreads)
  /\ \E policy \in LegacyPolicies : raw = <<LegacyStorage(policy, "TestClass", 2)>>
  /\ work = [NoWork EXCEPT !.phase = "legacy", !.facade = "pool"]

NextLegacy ==
  /\ work.phase # "crashed"
  /\ \/ LegacyDtorBegin(1, 1)
     \/ \E t \in DOMAIN th :
          \/ TotalCalls < MaxLegacyOps /\ Usable(1) /\ ~(th[1].pc = "ld_loop") /\ CallPoolAllocate(t, 1)
          \/ \E c \in Chunks :
               TotalCalls < MaxLegacyOps /\ Usable(1) /\ ~(th[1].pc = "ld_loop") /\ CallPoolFree(t, 1, c)
          \/ LegacyStep(t)

SpecLegacy == InitLegacy /\ [][NextLegacy]_vars

\* SpecPool: an opool::ObjectPool<T, Size> with N = 2 items per page; P * N allocate()
\* calls in total are issued by the threads and nothing is freed.
InitPool ==
  /\ InitWith(NumThreads)
  /\ raw = <<PoolStorage("TestClass", 2)>>
  /\ \E P \in 1..GrowthPages :
       work = [NoWork EXCEPT !.phase = "grow", !.facade = "single", !.plan = P * GrowthItems]

NextPool ==
  \E t \in DOMAIN th :
    \/ /\ TotalCalls < work.plan
       /\ CallTypedAllocate(t, "single", "TestClass", FALSE)
       /\ UNCHANGED work
    \/ RawStep(t)
    \/ PoolStep(t)
    \/ Construct(t)

SpecPool == InitPool /\ [][NextPool]_vars

\* SpecObjects: every thread uses one SegregatedStorage<TestClass> of either page-size
\* policy for up to MaxOps allocate(args...)/free(ptr) calls in any order; free is given
\* any object a caller holds.
InitObjects ==
  /\ InitWith(NumThreads)
  /\ \E r \in RawConfigs : raw = <<r>>
  /\ work = [NoWork EXCEPT !.phase = "typed", !.facade = "single"]

NextObjects ==
  \E t \in DOMAIN th :
    \/ /\ calls[t] < MaxOps
       /\ CallTypedAllocate(t, "single", "TestClass", FALSE)
       /\ UNCHANGED work
    \/ /\ calls[t] < MaxOps
       /\ \E c \in Chunks : CallTypedFree(t, "single", c)
       /\ UNCHANGED work
    \/ RawStep(t)
    \/ TypedStep(t)

SpecObjects == InitObjects /\ [][NextObjects]_vars

\* SpecHandles: every thread uses one SegregatedStorage<TestClass> through owning handles
\* only, for up to MaxHandleOps allocateUnique / allocateShared calls and deleter runs in
\* total; shared
\* handles are copied up to MaxRefs references and any reference may be let go.
InitHandles ==
  /\ InitWith(NumThreads)
  /\ raw = <<FixedStorage("TestClass", 2)>>
  /\ work = [NoWork EXCEPT !.phase = "handles", !.facade = "single"]

NextHandles ==
  \E t \in DOMAIN th :
    \/ /\ TotalCalls < MaxHandleOps
       /\ \E own \in {"unique", "shared"} : CallAllocateOwned(t, "single", "TestClass", FALSE, own)
       /\ UNCHANGED work
    \/ \E i \in DOMAIN work.handles : TotalCalls < MaxHandleOps /\ ReleaseHandle(t, i)
    \/ \E i \in DOMAIN work.handles : CopyHandle(t, i)
    \/ MakeHandle(t)
    \/ RawStep(t)
    \/ TypedStep(t)

SpecHandles == InitHandles /\ [][NextHandles]_vars

\* SpecFailure: one thread uses a typed allocator of any of the three kinds, or one
\* constructed with a page size that cannot hold a chunk, for up to MaxFailureOps calls
\* while the memory provider may refuse any page request.  Before
\* each call the program notes the allocator's state and the chunks' links.
Snapshot == [storage |-> raw[1], next |-> next]

InitFailure ==
  /\ InitWith(1)
  /\ raw \in {<<FixedStorage("TestClass", 2)>>, <<GrowingStorage("TestClass", 2)>>,
              <<PoolStorage("TestClass", 2)>>, <<TooSmallStorage("TestClass")>>}
  /\ work = [NoWork EXCEPT !.phase = "failure", !.facade = "single"]

NextFailure ==
  \E t \in DOMAIN th :
    \/ /\ TotalCalls < MaxFailureOps
       /\ CallTypedAllocate(t, "single", "TestClass", FALSE)
       /\ work' = [work EXCEPT !.hist = <<Snapshot>>]
    \/ /\ TotalCalls < MaxFailureOps
       /\ \E c \in Chunks : CallTypedFree(t, "single", c)
       /\ work' = [work EXCEPT !.hist = <<Snapshot>>]
    \/ RawStep(t)
    \/ PoolStep(t)
    \/ TypedStep(t)
    \/ AddPageAllocFails(t)
    \/ AddPageSizeError(t)

SpecFailure == InitFailure /\ [][NextFailure]_vars

\* SpecReuse: k objects are allocated, then all are freed, then k are allocated again;
\* each phase is run by all threads and ends when every call of it has returned.
InitReuse ==
  /\ InitWith(NumThreads)
  /\ \E r \in RawConfigs : raw = <<r>>
  /\ \E k \in 1..ReuseObjects : work = [NoWork EXCEPT !.phase = "alloc1", !.plan = k]

ReusePhase ==
  /\ AllIdle
  /\ \/ /\ work.phase = "alloc1"
        /\ TotalCalls = work.plan
        /\ work' = [work EXCEPT !.phase = "free"]
     \/ /\ work.phase = "free"
        /\ TotalLive = 0
        /\ work' = [work EXCEPT !.phase = "alloc2", !.mark = raw[1].pageCount_]
  /\ calls' = [t \in DOMAIN calls |-> 0]
  /\ UNCHANGED <<raw, mem, reg, th, outcome>>

NextReuse ==
  \/ ReusePhase
  \/ \E t \in DOMAIN th :
       \/ /\ work.phase \in {"alloc1", "alloc2"}
          /\ TotalCalls < work.plan
          /\ CallAllocate(t, 1)
       \/ \E c \in Chunks : work.phase = "free" /\ CallFree(t, 1, c)
       \/ RawStep(t)

SpecReuse == InitReuse /\ [][NextReuse]_vars

\* SpecTyped: one thread uses a typed allocator for up to MaxTypedOps calls: a
\* SegregatedStorage<ThrowableCtor> of either page-size policy, or a SegregatedMultiStorage
\* with three types, two of which have the same size and alignment.  hist is the
\* sequence of calls made so far.
TypesVia(via) == IF via = "single" THEN {"ThrowableCtor"} ELSE {"ThrowableCtor", "Bucket1", "Bucket2"}

InitTyped ==
  /\ InitWith(1)
  /\ \/ /\ raw \in {<<FixedStorage("ThrowableCtor", 2)>>, <<GrowingStorage("ThrowableCtor", 2)>>}
        /\ work = [NoWork EXCEPT !.phase = "typed", !.facade = "single"]
     \/ /\ raw = << >>
        /\ work = [NoWork EXCEPT !.phase = "typed", !.facade = "multi"]

NextTyped ==
  \E t \in DOMAIN th :
    \/ /\ TotalCalls < MaxTypedOps
       /\ \E T \in TypesVia(work.facade), arg \in BOOLEAN :
            /\ arg => T = "ThrowableCtor"
            /\ CallTypedAllocate(t, work.facade, T, arg)
            /\ work' = [work EXCEPT !.hist = Append(@, IF CtorThrows(T, arg) THEN "throw"
                                                        ELSE IF T = "ThrowableCtor" THEN "ok"
                                                        ELSE "other")]
    \/ /\ TotalCalls < MaxTypedOps
       /\ \E c \in Chunks : CallTypedFree(t, work.facade, c)
       /\ work' = [work EXCEPT !.hist = Append(@, "free")]
    \/ RawStep(t)
    \/ TypedStep(t)
    \/ RegistryStep(t)

SpecTyped == InitTyped /\ [][NextTyped]_vars

\* SpecScenario: the PageAllocation test of SegregatedStorage<TestClass>: a pool whose
\* first page holds objectsPerPage chunks; objectCount objects are allocated, all are
\* freed in the order of allocation, objectCount are allocated again, then one more.
ObjectsPerPage == 3
ScenarioPages == 34
ObjectCount == ScenarioPages * ObjectsPerPage

InitScenario ==
  /\ InitWith(1)
  /\ raw = <<GrowingStorage("TestClass", ObjectsPerPage)>>
  /\ work = [NoWork EXCEPT !.phase = "alloc1", !.facade = "single", !.plan = ObjectCount]

\* objects[i] = pool.allocate();
ScenarioKeep ==
  /\ AllIdle
  /\ outcome[1].kind = "object"
  /\ work' = [work EXCEPT !.objects = Append(@, outcome[1].chunk)]
  /\ outcome' = [outcome EXCEPT ![1] = NoOutcome]
  /\ UNCHANGED <<raw, mem, reg, th, calls>>

ScenarioPhase ==
  /\ AllIdle
  /\ outcome[1].kind # "object"
  /\ TotalCalls = (IF work.phase = "extra" THEN 1 ELSE work.plan)
  /\ work.phase \in {"alloc1", "free", "alloc2", "extra"}
  /\ work' = CASE work.phase = "alloc1" -> [work EXCEPT !.phase = "free"]
               [] work.phase = "free" ->
                    [work EXCEPT !.phase = "alloc2", !.objects = << >>, !.mark = PageCount(1)]
               [] work.phase = "alloc2" -> [work EXCEPT !.phase = "extra"]
               [] work.phase = "extra" -> [work EXCEPT !.phase = "done"]
  /\ calls' = [t \in DOMAIN calls |-> 0]
  /\ UNCHANGED <<raw, mem, reg, th, outcome>>

NextScenario ==
  \/ ScenarioKeep
  \/ ScenarioPhase
  \/ /\ work.phase \in {"alloc1", "alloc2", "extra"}
     /\ outcome[1].kind # "object"
     /\ TotalCalls < (IF work.phase = "extra" THEN 1 ELSE work.plan)
     /\ CallTypedAllocate(1, "single", "TestClass", FALSE)
     /\ UNCHANGED work
  \/ /\ work.phase = "free"
     /\ TotalCalls < work.plan
     /\ CallTypedFree(1, "single", work.objects[TotalCalls + 1])
     /\ UNCHANGED work
  \/ RawStep(1)
  \/ TypedStep(1)

SpecScenario == InitScenario /\ [][NextScenario]_vars

\* SpecRegistry: every thread makes up to RegistryOps calls of a SegregatedMultiStorage:
\* allocate<T>() for any of three types, two of which have the same size and alignment
\* and one the same size and another alignment, or free<T>(ptr) of any live object.
RegistryTypes == {"Bucket1", "Bucket2", "AlignedClass"}

InitRegistry ==
  /\ InitWith(NumThreads)
  /\ raw = << >>
  /\ work = [NoWork EXCEPT !.phase = "registry", !.facade = "multi"]

NextRegistry ==
  \E t \in DOMAIN th :
    \/ /\ calls[t] < RegistryOps
       /\ \E T \in RegistryTypes : CallTypedAllocate(t, "multi", T, FALSE)
       /\ UNCHANGED work
    \/ /\ calls[t] < RegistryOps
       /\ \E c \in Chunks : CallTypedFree(t, "multi", c)
       /\ UNCHANGED work
    \/ RawStep(t)
    \/ TypedStep(t)
    \/ RegistryStep(t)
    \/ FreeFindRace(t)

SpecRegistry == InitRegistry /\ [][NextRegistry]_vars

\* -------------------------------------------------------------- properties
\* The chunks a thread has in hand inside a call: popped and not yet returned, being
\* constructed or destroyed, or being pushed.
InFlight(t) ==
  IF th[t].pc \in {"u_load", "u_link", "u_cas"} THEN th[t].head .. th[t].tail
  ELSE IF th[t].pc \in {"t_ctor", "t_dtor", "f_find"} THEN {th[t].ptr}
  ELSE {}

Holders(c) == Cardinality({t \in DOMAIN th : c \in InFlight(t)})
Owner(c) == CHOOSE s \in 1..Len(raw) : c \in StorageChunks(s)
Places(c) == (IF c \in FreeSet(Owner(c)) THEN 1 ELSE 0) + live[c] + Holders(c)

\* C1 (No double allocation): allocate() never returns a chunk that another caller
\* received earlier and has not freed yet: no chunk is held by two callers at once.
C1_NoDoubleAllocation == \A c \in Chunks : live[c] <= 1

\* C2 (Chunk conservation): every chunk of every page is in exactly one place: on the
\* free-list, held live by one caller, or in the hands of one thread inside a call.
C2_ChunkConservation == \A c \in Chunks : Places(c) = 1

\* C3 (Free-list well-formedness): the free-list head is null or a chunk of a page in
\* the page list, and the next links from the head reach null without a repeated chunk.
C3_FreeListWellFormed ==
  \A s \in 1..Len(raw) :
    /\ raw[s].freeItems_ = NULL \/ raw[s].freeItems_ \in StorageChunks(s)
    /\ Acyclic(raw[s].freeItems_, {})

\* C4 (Exact page growth under contention): on a fresh fixed-page allocator with N chunks
\* per page, once P * N allocate() calls issued by concurrent threads have all returned
\* and nothing was freed, exactly P pages have been added: pageCount_ = P.
C4_ExactPageGrowth ==
  (AllIdle /\ TotalCalls = work.plan) =>
    /\ raw[1].pageCount_ * GrowthItems = work.plan
    /\ PageCount(1) = raw[1].pageCount_

C4_Witness ==
  /\ AllIdle
  /\ TotalCalls = work.plan
  /\ \A t \in DOMAIN th : calls[t] > 0
  /\ raw[1].pageCount_ = GrowthPages
  /\ TotalLive = GrowthPages * GrowthItems

\* C5 (Page-count scenario of the PageAllocation test): with a first page of exactly 3
\* chunks, allocating 102 objects performs exactly 34 page allocations; after freeing all
\* of them, allocating 102 again performs none; allocating a 103rd performs exactly one.
C5_PageAllocationScenario ==
  /\ work.phase = "free" => PageCount(1) = ScenarioPages
  /\ work.phase = "extra" => PageCount(1) = work.mark
  /\ work.phase = "done" => PageCount(1) = work.mark + 1

\* C6 (Reuse without growth): after k objects were allocated and all k were freed, no
\* page is added while k objects are allocated again, under either page-size policy and
\* with every phase run by several threads.
C6_ReuseWithoutGrowth ==
  work.phase = "alloc2" =>
    /\ raw[1].pageCount_ = work.mark
    /\ PageCount(1) = work.mark

C6_Witness ==
  /\ work.phase = "alloc2"
  /\ AllIdle
  /\ work.plan = ReuseObjects
  /\ TotalCalls = work.plan
  /\ TotalLive = work.plan
  /\ \A t \in DOMAIN th : calls[t] > 0
  /\ work.mark > 1
  /\ raw[1].policy = "growing"

\* A call that ended by throwing to the caller, and the pages it added.
Threw(t) ==
  /\ th[t].pc = "idle"
  /\ outcome[t].kind \notin {"none", "pending", "chunk", "object", "freed", "crash"}
PagesAdded(t) == PageCount(outcome[t].s) - outcome[t].pagesBefore
ChunksAdded(t) == Sum([i \in 1..PagesAdded(t) |-> raw[outcome[t].s].pageHead_[i].count])

\* C7 (Exception safety, count), as stated: after a typed allocate whose
\* constructor threw, with no other thread operating, the free-list holds as many chunks
\* as before the call.
C7_FreeCountUnchanged ==
  \A t \in DOMAIN th : Threw(t) => FreeCount(outcome[t].s) = outcome[t].freeBefore

\* C7 (Exception safety, count), amended: the failed call adds one page exactly when the
\* free-list was empty before it, and afterwards the free-list holds the chunks it held
\* before plus all chunks of that page; no chunk is held by the caller.
C7_FreeCountAfterThrow ==
  \A t \in DOMAIN th :
    Threw(t) =>
      /\ PagesAdded(t) = (IF outcome[t].freeBefore = 0 THEN 1 ELSE 0)
      /\ FreeCount(outcome[t].s) = outcome[t].freeBefore + ChunksAdded(t)
      /\ live[outcome[t].chunk] = 0

C7_Witness ==
  \E t \in DOMAIN th :
    /\ Threw(t)
    /\ outcome[t].freeBefore = 0
    /\ outcome[t].pagesBefore > 0
    /\ FreeCount(outcome[t].s) > 0
    /\ TotalLive > 0

\* The chunks of the first page of storage s (the oldest entry of the page list).
FirstPageItems(s) == raw[s].pageHead_[PageCount(s)].count
ThrowThenOk(n) == <<"throw">> \o [i \in 1..n |-> "ok"]

\* C8 (Exception safety, reclaim): when the constructor throws, the popped chunk is back
\* on the free-list of the raw allocator it came from when the exception reaches the
\* caller, the exception is the constructor's own, and no capacity is consumed: on a
\* fresh pool with N chunks per page one throwing allocate followed by N successful ones
\* adds exactly one page, and the (N+1)-th successful allocate adds exactly one more.
C8_ExceptionReclaim ==
  /\ \A t \in DOMAIN th :
       Threw(t) =>
         /\ outcome[t].kind = "CustomError"
         /\ outcome[t].chunk \in StorageChunks(outcome[t].s)
         /\ outcome[t].chunk \in FreeSet(outcome[t].s)
         /\ outcome[t].s = StorageFor(work.facade, "ThrowableCtor")
         /\ obj[outcome[t].chunk] = NoType
  /\ (work.phase = "typed" /\ AllIdle /\ Len(work.hist) > 0 /\ Head(work.hist) = "throw") =>
       LET s == StorageFor(work.facade, "ThrowableCtor")
       IN /\ work.hist = ThrowThenOk(FirstPageItems(s)) => PageCount(s) = 1
          /\ work.hist = ThrowThenOk(FirstPageItems(s) + 1) => PageCount(s) = 2

C8_Witness ==
  /\ work.phase = "typed"
  /\ work.facade = "multi"
  /\ AllIdle
  /\ StorageFor("multi", "ThrowableCtor") # 0
  /\ PageCount(StorageFor("multi", "ThrowableCtor")) = 2
  /\ work.hist = ThrowThenOk(FirstPageItems(StorageFor("multi", "ThrowableCtor")) + 1)

\* The (type, raw allocator) pairs in use: every live object with the storage that owns
\* its chunk, and every registry call with the storage it has been given.
Served ==
  {<<obj[c], Owner(c)>> : c \in {x \in Chunks : obj[x] # NoType}}
    \cup {<<th[t].T, th[t].s>> : t \in {u \in DOMAIN th : th[u].via = "multi" /\ th[u].s # 0}}

SameSizeAndAlignment(T, U) == SizeOf(T) = SizeOf(U) /\ AlignOf(T) = AlignOf(U)

\* Only the first thread has made calls so far: the run has been sequential.
OnlyFirstThread == \A t \in DOMAIN th : t # 1 => calls[t] = 0

\* C9 (Registry co-location): two types are served by the same raw allocator if and only
\* if their sizeof and alignof are both equal; and since they then share pages, an
\* allocate of either type that finds a free chunk in the shared allocator adds no page.
C9_RegistryCoLocation ==
  /\ \A p \in Served, q \in Served : (p[2] = q[2]) <=> SameSizeAndAlignment(p[1], q[1])
  /\ (OnlyFirstThread /\ th[1].pc = "idle" /\ outcome[1].kind = "object"
        /\ outcome[1].freeBefore > 0) => PagesAdded(1) = 0

C9_Witness ==
  /\ OnlyFirstThread
  /\ AllIdle
  /\ outcome[1].kind = "object"
  /\ obj[outcome[1].chunk] = "Bucket2"
  /\ outcome[1].freeBefore > 0
  /\ \E c \in Chunks : obj[c] = "Bucket1" /\ Owner(c) = outcome[1].s
  /\ PageCount(outcome[1].s) = 1

Registered == {storage_[k] : k \in DOMAIN storage_}

\* C10 (Registry uniqueness under creation races): each key has one registered raw
\* allocator; every allocate<T> call that has been given an allocator has the one that is
\* registered for its key; and an allocator that a call uses or that has handed out
\* chunks is registered and is never destroyed or replaced.
C10_RegistryUniqueness ==
  /\ \A k1 \in DOMAIN storage_, k2 \in DOMAIN storage_ : storage_[k1] = storage_[k2] => k1 = k2
  /\ \A t \in DOMAIN th :
       (th[t].via = "multi" /\ th[t].s # 0) =>
         /\ KeyOf(th[t].T) \in DOMAIN storage_
         /\ storage_[KeyOf(th[t].T)] = th[t].s
         /\ th[t].s \notin destroyed
  /\ \A s \in 1..Len(raw) : PageCount(s) > 0 => s \in Registered /\ s \notin destroyed
  /\ \A s \in 1..Len(raw) : s \in Registered \/ s \in destroyed
  /\ Registered \cap destroyed = {}

C10_Witness ==
  /\ AllIdle
  /\ destroyed # {}
  /\ \A t \in DOMAIN th :
       /\ calls[t] = 1
       /\ outcome[t].kind = "object"
       /\ outcome[t].s = outcome[1].s
       /\ outcome[t].chunk \in StorageChunks(outcome[1].s)
  /\ Cardinality(DOMAIN storage_) = 1

\* C11 (Registry free() is synchronised with registration): free<T> looks its allocator
\* up while holding the shared lock, so no lookup of the map by free<T> overlaps an
\* insertion into the map by createStorage<U> of another thread, and no lookup goes wrong.
C11_FreeLookupSynchronised ==
  \A t \in DOMAIN th :
    /\ th[t].pc = "f_find" =>
         /\ t \in mutex_.readers
         /\ \A u \in DOMAIN th : th[u].pc # "c_emplace"
    /\ outcome[t].kind # "crash"

\* A thread that is adding a page: past the counter check of addPage, up to its return.
Growing(t) ==
  th[t].pc \in {"p_alloc", "p_inc", "o_inc", "o_ret"} \/ th[t].after \in {"p_inc", "o_ret"}

\* C12 (No redundant page per round): addPage(v) adds a page only if pageCount_ still
\* equals v once the mutex is held, so for every counter value v at most one page is added
\* by calls carrying v (the i-th page is the one added by a call carrying i - 1), and a
\* call that finds the counter changed under the mutex returns without allocating.
C12_NoRedundantPage ==
  \A s \in 1..Len(raw) :
    /\ \A i \in 1..PageCount(s), j \in 1..PageCount(s) :
         raw[s].pageHead_[i].round = raw[s].pageHead_[j].round => i = j
    /\ \A i \in 1..PageCount(s) : raw[s].pageHead_[i].round = PageCount(s) - i
    /\ \A t \in DOMAIN th :
         (th[t].s = s /\ th[t].pc = "p_alloc") => th[t].pageCount = raw[s].pageCount_
    /\ Cardinality({t \in DOMAIN th : th[t].s = s /\ Growing(t)}) <= 1
C12_Witness ==
  \E t \in DOMAIN th, u \in DOMAIN th :
    /\ th[t].pc = "p_check"
    /\ th[t].pageCount < raw[1].pageCount_
    /\ th[u].pc = "p_lock"
    /\ th[u].pageCount = th[t].pageCount
    /\ PageCount(1) = th[t].pageCount + 1

\* A thread that is past the counter check of addPage and has not yet made its page.
AboutToAddPage(t) == th[t].pc \in {"p_alloc", "o_inc"}

\* C13 (No missed page in opool::ObjectPool): a thread that found the stack empty does
\* not allocate a page when the items of another thread's page were pushed onto the stack
\* after this thread read the page counter: in an allocate-only run a thread goes on to
\* allocate a page only while the stack is empty, so P * N allocations add P pages.
C13_NoMissedPage ==
  /\ \A t \in DOMAIN th : AboutToAddPage(t) => raw[th[t].s].freeItems_ = NULL
  /\ (AllIdle /\ TotalCalls = work.plan) => PageCount(1) * GrowthItems = work.plan

\* The page list of storage s after a step still ends with the pages it had before it.
KeepsPages(s) ==
  LET old == raw[s].pageHead_
      new == raw'[s].pageHead_
  IN /\ Len(new) >= Len(old)
     /\ \A i \in 1..Len(old) : new[Len(new) - Len(old) + i] = old[i]

\* C14 (Pages are retained): the page list only grows: no step of any allocate() or
\* free() releases, replaces or removes a page, and a page's chunk count never changes.
C14_PagesRetained ==
  [][/\ Len(raw') >= Len(raw)
     /\ \A s \in 1..Len(raw) : KeepsPages(s)]_vars

C14_Witness ==
  /\ AllIdle
  /\ PageCount(1) = 2
  /\ TotalLive = 0
  /\ TotalCalls = 2 * MaxOps

\* A call that ended because the memory provider refused a page, and whether the
\* allocator is now as the caller noted it before the call.
OutOfMemory(t) == th[t].pc = "idle" /\ outcome[t].kind = "bad_alloc"
AsBeforeCall ==
  /\ raw[1].pageHead_ = work.hist[1].storage.pageHead_
  /\ raw[1].pageCount_ = work.hist[1].storage.pageCount_
  /\ raw[1].pageSize_ = work.hist[1].storage.pageSize_
  /\ raw[1].freeItems_ = work.hist[1].storage.freeItems_
  /\ next = work.hist[1].next

\* C15 (Atomicity of page-allocation failure in RawSegregatedStorage): when obtaining the
\* memory of a page fails inside addPage, then once the failure has left allocate() the
\* page list, the page counter, the next page size and the free-list are as before the call.
C15_FailureAtomic ==
  \A t \in DOMAIN th :
    (OutOfMemory(t) /\ raw[1].policy # "opool") => AsBeforeCall /\ raw[1].allocationMutex_ = 0

C15_Witness ==
  \E t \in DOMAIN th :
    /\ OutOfMemory(t)
    /\ raw[1].policy = "growing"
    /\ PageCount(1) > 0
    /\ TotalLive > 0

\* C16 (Atomicity of page-allocation failure in opool::ObjectPool): when creating a page
\* throws inside ObjectPool::addPage, pageCount_, pages_ and the free-list are the same
\* after the failed call as before it.
C16_PoolFailureAtomic ==
  \A t \in DOMAIN th : (OutOfMemory(t) /\ raw[1].policy = "opool") => AsBeforeCall

\* C17 (Configuration fails fast): a page size too small for one chunk plus the page
\* header is rejected when the allocator is configured, so an allocator whose construction
\* succeeded never reports the page-size error from allocate().
C17_ConfigurationFailsFast ==
  \A t \in DOMAIN th : outcome[t].kind # "runtime_error"

\* C18 (Construct/destruct ordering): the constructor of a successful allocate runs on a
\* chunk that has been removed from the free-list and holds no object; the destructor of
\* a free runs on a constructed object; and a chunk that is being returned to the
\* free-list, or is reachable on it, holds no object: its destructor has finished.
Constructing(t) == th[t].pc = "t_ctor"
Destroying(t) == th[t].pc = "t_dtor"
Returning(t) == th[t].pc \in {"u_load", "u_link", "u_cas"} /\ th[t].after \in {"free", "rethrow"}

C18_ConstructDestructOrder ==
  /\ \A t \in DOMAIN th :
       /\ Constructing(t) => /\ obj[th[t].ptr] = NoType
                             /\ th[t].ptr \notin FreeSet(th[t].s)
       /\ Destroying(t) => obj[th[t].ptr] = th[t].T
       /\ Returning(t) => obj[th[t].head] = NoType
  /\ \A s \in 1..Len(raw) : \A c \in FreeSet(s) : obj[c] = NoType

\* C19 (Owning handles): while a unique handle or any shared reference to an object
\* exists, its chunk is not on the free-list, holds the constructed object and is not being
\* freed; the destructor a release runs finds a constructed object; and once every call
\* has returned, each chunk whose handles were all released is back on the free-list.
Held(c) == \E i \in DOMAIN work.handles : work.handles[i].ptr = c /\ work.handles[i].refs > 0

C19_OwningHandles ==
  /\ \A i \in DOMAIN work.handles :
       LET h == work.handles[i]
       IN h.refs > 0 =>
            /\ h.ptr \notin FreeSet(StorageFor(h.via, h.T))
            /\ obj[h.ptr] = h.T
            /\ \A t \in DOMAIN th : ~(Destroying(t) /\ th[t].ptr = h.ptr)
            /\ \A t \in DOMAIN th : ~(Returning(t) /\ th[t].head = h.ptr)
  /\ \A t \in DOMAIN th : Destroying(t) => obj[th[t].ptr] = th[t].T
  /\ AllIdle => \A c \in StorageChunks(1) : Held(c) \/ c \in FreeSet(1)

\* C20 (Blocking discipline): a thread inside free() neither waits for nor holds the
\* page-growth mutex; a thread that waits for it or holds it is inside allocate(), in
\* addPage, and the last free-list head that call observed is null.
InAddPage(t) ==
  \/ th[t].pc \in {"p_lock", "p_check", "p_alloc", "p_inc"}
  \/ th[t].pc \in {"u_load", "u_link", "u_cas"} /\ th[t].after = "p_inc"

WaitsOrHolds(t) ==
  \/ th[t].pc = "p_lock"
  \/ \E s \in 1..Len(raw) : raw[s].allocationMutex_ = t

C20_BlockingDiscipline ==
  \A t \in DOMAIN th :
    /\ th[t].after = "free" => ~WaitsOrHolds(t)
    /\ WaitsOrHolds(t) => InAddPage(t) /\ th[t].oldHead = NULL
    /\ InAddPage(t) => WaitsOrHolds(t)

C20_Witness ==
  \E t, u \in DOMAIN th :
    /\ th[t].after = "free" /\ th[t].pc = "u_cas"
    /\ raw[1].allocationMutex_ = u /\ th[u].pc = "p_alloc"
    /\ PageCount(1) = 1

\* C21 (Progress): under fair scheduling every thread that is inside allocate() or free()
\* eventually returns from it, so no reachable state leaves a thread inside an operation
\* with no step to take, also when it finds the free-list empty after a page was added.
InCall(t) == th[t].pc # "idle"

C21_Progress == \A t \in Threads : InCall(t) ~> ~InCall(t)

C21_Witness ==
  \E t \in DOMAIN th :
    /\ th[t].pc = "p_lock"
    /\ th[t].pageCount >= 1
    /\ th[t].pageCount = raw[1].pageCount_
    /\ raw[1].freeItems_ = NULL
    /\ calls[t] = 1

\* C22 (Alignment): wherever the memory provider places a page (at a multiple of
\* alignof(Page)), the body address of every chunk of every page, and so every pointer
\* allocate() returned, is a multiple of the chunk alignment; the body offset inside an
\* item and the item stride are multiples of it too.
C22_Alignment ==
  \A s \in 1..Len(raw) :
    LET A == raw[s].Alignment
        Size == raw[s].Size
    IN /\ BodyOffset(A) % A = 0
       /\ ItemSize(Size, A) % A = 0
       /\ \A p \in 1..PageCount(s) : \A c \in PageChunks(raw[s].pageHead_[p]) :
            \A base \in AlignedBases(A) :
              BodyAddress(Size, A, base, c - raw[s].pageHead_[p].first) % A = 0

C22_Witness ==
  \E t \in DOMAIN th :
    /\ outcome[t].kind = "chunk"
    /\ raw[1].Alignment = 256
    /\ PageCount(1) = 2
    /\ \E p \in 1..PageCount(1) :
         /\ outcome[t].chunk \in PageChunks(raw[1].pageHead_[p])
         /\ outcome[t].chunk > raw[1].pageHead_[p].first

\* C23 (Registry entries are stable): a key that is registered stays registered with the
\* same raw allocator in every step, no registered allocator is ever destroyed, and the
\* allocator a thread obtained from findStorage or createStorage is still the registered,
\* undestroyed one for as long as the thread uses it.
RegisteredStorages == {storage_[k] : k \in DOMAIN storage_}

EntriesKept ==
  \A k \in DOMAIN storage_ : k \in DOMAIN storage_' /\ storage_'[k] = storage_[k]

PointersValid ==
  /\ RegisteredStorages \cap destroyed = {}
  /\ \A t \in DOMAIN th :
       (th[t].via = "multi" /\ th[t].s # 0) =>
          /\ th[t].s \notin destroyed
          /\ KeyOf(th[t].T) \in DOMAIN storage_
          /\ storage_[KeyOf(th[t].T)] = th[t].s

C23_RegistryStable == [][EntriesKept]_vars /\ []PointersValid

C23_Witness ==
  \E t \in DOMAIN th :
    /\ th[t].via = "multi" /\ th[t].s = 1 /\ th[t].pc \in {"a_loadCount", "a_loadHead"}
    /\ Cardinality(DOMAIN storage_) = 2
    /\ destroyed # {}

\* C24 (Page counter protocol): pageCount_ changes only by a step of the thread that
\* holds the mutex and has finished pushing the page it linked, and then by exactly one;
\* the page list is ahead of pageCount_ by one page exactly while such a thread is past
\* the page allocation, so pageCount_ never counts a page that is not merged yet, and
\* with the mutex free pageCount_ is the number of pages.
PastPageAlloc(t, s) ==
  /\ th[t].s = s
  /\ \/ th[t].pc = "p_inc"
     \/ th[t].pc \in {"u_load", "u_link", "u_cas"} /\ th[t].after = "p_inc"

CounterStep(s) ==
  raw'[s].pageCount_ # raw[s].pageCount_ =>
    /\ raw'[s].pageCount_ = raw[s].pageCount_ + 1
    /\ raw[s].allocationMutex_ # 0
    /\ th[raw[s].allocationMutex_].pc = "p_inc" /\ th[raw[s].allocationMutex_].s = s
    /\ PageCount(s) = raw[s].pageCount_ + 1
    /\ raw'[s].pageHead_ = raw[s].pageHead_

CounterInv(s) ==
  /\ PageCount(s) = raw[s].pageCount_ + (IF \E t \in DOMAIN th : PastPageAlloc(t, s) THEN 1 ELSE 0)
  /\ \A t \in DOMAIN th : PastPageAlloc(t, s) => raw[s].allocationMutex_ = t
  /\ raw[s].allocationMutex_ = 0 => PageCount(s) = raw[s].pageCount_

C24_PageCounterProtocol ==
  /\ [][\A s \in 1..Len(raw) : CounterStep(s)]_vars
  /\ [](\A s \in 1..Len(raw) : CounterInv(s))

C24_Witness ==
  \E t, u \in DOMAIN th :
    /\ th[t].pc = "p_inc" /\ raw[1].pageCount_ = 1 /\ PageCount(1) = 2
    /\ th[u].pc = "a_cas" /\ th[u].oldHead \in PageChunks(raw[1].pageHead_[1])

\* C25 (Counter is read before the emptiness observation): inside allocate() every load
\* of the free-list head directly follows a load of pageCount_ by the same thread, the
\* step in which a thread observes the null head (that load, or a failed
\* compare-exchange) and every step up to addPage's check keep the value it loaded, and
\* that value is changed by nothing but the load; so the value given to addPage was read
\* before the null head was observed, and is never ahead of pageCount_.
InAllocate(t) == th[t].pc \in {"a_loadCount", "a_loadHead", "a_readNext", "a_cas", "p_lock", "p_check"}

CounterReadFirst(t) ==
  /\ (th'[t].pc = "a_loadHead" /\ th[t].pc # "a_loadHead") =>
        /\ th[t].pc = "a_loadCount"
        /\ th'[t].pageCount = raw[th[t].s].pageCount_
  /\ (th'[t].pc = "p_lock" /\ th[t].pc # "p_lock") =>
        /\ th[t].pc \in {"a_loadHead", "a_cas"}
        /\ th'[t].oldHead = NULL
        /\ th'[t].pageCount = th[t].pageCount
  /\ (InAllocate(t) /\ InAllocate(t)' /\ th[t].pc # "a_loadCount") =>
        th'[t].pageCount = th[t].pageCount

C25_CounterReadBeforeHead ==
  /\ [][\A t \in DOMAIN th : CounterReadFirst(t)]_vars
  /\ [](\A t \in DOMAIN th : th[t].pc \in {"a_loadHead", "a_readNext", "a_cas", "p_lock", "p_check"}
                               => th[t].pageCount <= raw[th[t].s].pageCount_)

C25_Witness ==
  \E t \in DOMAIN th :
    /\ th[t].pc = "p_check"
    /\ th[t].nextHead # NULL
    /\ th[t].pageCount = raw[1].pageCount_
    /\ PageCount(1) >= 1

\* C26 (Page merge tolerates concurrent frees): the successful compare-exchange of
\* addPage's push adds exactly the chunks of the new page to the free-list and that of a
\* free() adds exactly the freed chunk, each keeping what was there; and when the page
\* was added and every call has returned, the free-list is acyclic and holds every chunk
\* that no caller holds, so every chunk of the new page and every freed chunk once.
PushDone(t) == th[t].pc = "u_cas" /\ th'[t].pc # "u_cas" /\ th'[t].pc # "u_link"

MergeStep(t) ==
  \A s \in 1..Len(raw) :
    (PushDone(t) /\ th[t].s = s) => FreeSet(s)' = FreeSet(s) \cup (th[t].head .. th[t].tail)

MergeDone ==
  (AllIdle /\ calls[1] = GrowthItems + 1) =>
     /\ Acyclic(raw[1].freeItems_, {})
     /\ FreeSet(1) = {c \in StorageChunks(1) : live[c] = 0}
     /\ \A c \in Chunks : live[c] <= 1

C26_MergeToleratesFrees ==
  /\ [][\A t \in DOMAIN th : MergeStep(t)]_vars
  /\ []MergeDone

C26_Witness ==
  \E u \in DOMAIN th :
    /\ th[1].pc = "u_cas" /\ th[1].after = "p_inc"
    /\ th[1].pushOldHead = NULL /\ raw[1].freeItems_ # NULL
    /\ th[u].pc = "u_cas" /\ th[u].after = "free"

\* C27 (free() frame): every step a thread takes inside RawSegregatedStorage::free leaves
\* pageCount_, the page list, the page size, the mutex and the next link of every chunk
\* but the freed one as they are; the head is left alone or becomes the freed chunk.
InFree(t) == th[t].pc \in {"u_load", "u_link", "u_cas"} /\ th[t].after = "free"

FreeFrame(t) ==
  \A s \in 1..Len(raw) : \A c \in Chunks :
    (InFree(t) /\ th'[t] # th[t] /\ th[t].s = s /\ th[t].head = c) =>
       /\ raw'[s].pageCount_ = raw[s].pageCount_
       /\ raw'[s].pageHead_ = raw[s].pageHead_
       /\ raw'[s].pageSize_ = raw[s].pageSize_
       /\ raw'[s].allocationMutex_ = raw[s].allocationMutex_
       /\ raw'[s].freeItems_ \in {raw[s].freeItems_, c}
       /\ Len(next') = Len(next)
       /\ \A d \in Chunks \ {c} : next'[d] = next[d]

C27_FreeFrame == [][\A t \in DOMAIN th : FreeFrame(t)]_vars

C27_Witness ==
  \E t, u \in DOMAIN th :
    /\ InFree(t) /\ th[t].pc = "u_cas"
    /\ th[u].pc = "u_cas" /\ th[u].after = "p_inc"
    /\ raw[1].allocationMutex_ = u

\* C28 (Registry blocking discipline), as stated: a thread that has acquired the
\* exclusive lock in allocate<T> found no allocator for T's key, and T's key is not
\* registered when it acquires the lock; readers and a writer never hold mutex_ together.
HoldsExclusive(t) == mutex_.writer = t

SharedExclusive == mutex_.writer # 0 => mutex_.readers = {}

C28_WriteLockOnlyForNewKey ==
  /\ \A t \in DOMAIN th :
       (HoldsExclusive(t) /\ th[t].pc = "c_emplace") =>
          /\ th[t].s = 0
          /\ KeyOf(th[t].T) \notin DOMAIN storage_
  /\ SharedExclusive

\* C28, amended: a thread heads for the exclusive lock only out of a lookup that it made
\* under the shared lock and that found no allocator for T's key, it acquires the
\* exclusive lock only from there, so once per call, and a lookup that finds the key
\* registered goes on to the raw allocator; the key may have been registered by another
\* thread between the lookup and the acquisition.
MissThenLock(t) ==
  /\ (th'[t].pc = "c_lock" /\ th[t].pc # "c_lock") =>
        /\ th[t].pc = "r_find" /\ t \in mutex_.readers
        /\ KeyOf(th[t].T) \notin DOMAIN storage_
  /\ (th[t].pc = "r_find" /\ th'[t].pc # "r_find" /\ KeyOf(th[t].T) \in DOMAIN storage_) =>
        th'[t].pc = "a_loadCount" /\ th'[t].s = storage_[KeyOf(th[t].T)]
  /\ (HoldsExclusive(t)' /\ ~HoldsExclusive(t)) => th[t].pc = "c_lock" /\ th[t].s = 0

C28_WriteLockAfterMiss ==
  /\ [][\A t \in DOMAIN th : MissThenLock(t)]_vars
  /\ []SharedExclusive

C28_Witness ==
  \E t, u \in DOMAIN th :
    /\ th[t].pc = "c_lock" /\ KeyOf(th[t].T) \in DOMAIN storage_
    /\ th[u].pc = "r_find" /\ u \in mutex_.readers /\ calls[u] = 2

\* C29 (Growing page size): the k-th page added was given the configured page size times
\* 2^(k-1) bytes, pageSize_ is the configured size times 2^pageCount_ (both modulo the
\* range of size_t), so it is doubled once per page added and never by an addPage that
\* returned early or failed, and no page holds fewer chunks than the page added before it.
RECURSIVE Pow2(_)
Pow2(n) == IF n = 0 THEN 1 ELSE 2 * Pow2(n - 1)

\* The k-th page added: pageHead_ lists the newest first.
PageAdded(s, k) == raw[s].pageHead_[PageCount(s) - k + 1]

GrowingPages(s) ==
  IF raw[s].policy = "growing" THEN {raw[s].pageHead_[i] : i \in 1..PageCount(s)} ELSE {}

C30_PageItemCount ==
  \A s \in 1..Len(raw) : \A p \in GrowingPages(s) :
    LET Size == raw[s].Size
        A == raw[s].Alignment
    IN /\ p.bytes >= PageBytes(Size, A)
       /\ p.count = (p.bytes - PageBytes(Size, A)) \div ItemSize(Size, A) + 1
       /\ p.count >= 1
       /\ ItemOffset(Size, A, p.count) <= p.bytes
       /\ \A c \in PageChunks(p) : ItemOffset(Size, A, c - p.first) + ItemSize(Size, A) <= p.bytes

C30_Witness ==
  \E t \in DOMAIN th : \E p \in GrowingPages(1) :
    /\ outcome[t].kind = "chunk"
    /\ outcome[t].chunk = p.first + p.count - 1
    /\ p.count = 2
    /\ ItemOffset(raw[1].Size, raw[1].Alignment, p.count) < p.bytes
    /\ raw[1].Alignment = 16

\* C31 (Memory ordering): every step that writes the free-list head does so with release
\* order or stronger, and whenever allocate() is about to read oldHead->next, or to return
\* oldHead after its compare-exchange, it obtained oldHead by an acquire or stronger
\* load, the value delivered by a failed compare_exchange included.
ReleaseOrStronger == {"release", "acq_rel", "seq_cst"}
AcquireOrStronger == {"acquire", "acq_rel", "seq_cst"}

HeadWrittenWithRelease ==
  \A s \in 1..Len(raw) :
    raw'[s].freeItems_ # raw[s].freeItems_ => SuccessOrder(raw[s].policy) \in ReleaseOrStronger

DereferencedHeadAcquired ==
  \A t \in DOMAIN th :
    th[t].pc \in {"a_readNext", "a_cas"} => th[t].order \in AcquireOrStronger

C31_MemoryOrdering == [][HeadWrittenWithRelease]_vars /\ []DereferencedHeadAcquired

\* C32 (Teardown): the destructor of RawSegregatedStorage, once begun, ends; when it has
\* ended every page that was ever added has been handed back to the memory provider exactly
\* once (the released pages are pairwise distinct and together hold every chunk ever
\* created); and no step of the destructor changes a chunk's next link, its holders or the
\* object in it: no T destructor runs.
InDtor(t) == th[t].pc = "d_loop"

ReleasedChunks == UNION {PageChunks(work.released[i]) : i \in 1..Len(work.released)}

ReleasedOnce ==
  \A i, j \in 1..Len(work.released) :
    i # j => PageChunks(work.released[i]) \cap PageChunks(work.released[j]) = {}

DtorFrame == (\E t \in DOMAIN th : InDtor(t)) => UNCHANGED <<next, live, obj>>

TeardownDone ==
  /\ ReleasedOnce
  /\ 1 \in destroyed => ReleasedChunks = Chunks /\ raw[1].pageHead_ = << >>

C32_Teardown ==
  /\ [][DtorFrame]_vars
  /\ []TeardownDone
  /\ \A t \in Threads : InDtor(t) ~> (1 \in destroyed)

C32_Witness ==
  /\ 1 \in destroyed
  /\ Len(work.released) = 3
  /\ \E c \in Chunks : obj[c] = "TestClass" /\ live[c] > 0
  /\ FreeSet(1) # {}

\* C33 (Legacy pool, new page joins the stack): in sequential use of pool::ObjectPool,
\* when pop() has returned from a call that added a page, the item it returns is one of
\* that page and the other count - 1 items of the page are on the free stack; and as long
\* as nothing was freed, n allocations have added ceil(n / count) pages, no more.
OnlyCaller(t) == \A u \in DOMAIN th : u # t => th[u].pc = "idle" /\ calls[u] = 0

PopReturned(t) == th[t].pc = "l_ctor"

AddedPage(t) == outcome[t].pagesBefore < PageCount(th[t].s)

NewestPage(s) == raw[s].pageHead_[1]

C33_NewPageJoinsStack ==
  \A t \in DOMAIN th :
    /\ (PopReturned(t) /\ OnlyCaller(t) /\ AddedPage(t)) =>
          /\ th[t].ptr \in PageChunks(NewestPage(th[t].s))
          /\ PageChunks(NewestPage(th[t].s)) \ {th[t].ptr} \subseteq FreeSet(th[t].s)
    /\ (th[t].pc = "idle" /\ OnlyCaller(t) /\ work.dtors = 0 /\ work.phase = "legacy") =>
          \A s \in 1..Len(raw) :
            IF work.ctors = 0
              THEN PageCount(s) = 0
              ELSE /\ PageCount(s) > 0
                   /\ PageCount(s) = (work.ctors + NewestPage(s).count - 1) \div NewestPage(s).count

\* C34 (allocate never yields null): in every allocator variant a pop that has returned
\* hands a non-null chunk of a page of its allocator to the constructor, and every chunk a
\* caller was given is such a chunk.
PopResult(t) == th[t].pc \in {"t_ctor", "l_ctor"}

C34_NeverNull ==
  \A t \in DOMAIN th :
    /\ PopResult(t) => th[t].ptr # NULL /\ th[t].ptr \in StorageChunks(th[t].s)
    /\ outcome[t].kind = "chunk" =>
         outcome[t].chunk # NULL /\ outcome[t].chunk \in StorageChunks(outcome[t].s)

\* C35 (Legacy first-approach pool keeps freed items): the step of newPage that installs
\* the new page as the head of the stack leaves every item that was on the free stack on
\* it, items freed while the page lock was held included, and puts every item of the new
\* page on it.
InstallsPage(t) == th[t].pc = "l_store" /\ th'[t].pc # "l_store"

StackKept ==
  \A s \in 1..Len(raw) :
    (\E t \in DOMAIN th : th[t].s = s /\ InstallsPage(t)) =>
       /\ FreeSet(s) \subseteq FreeSet(s)'
       /\ PageChunks(NewestPage(s)) \subseteq FreeSet(s)'

C35_FreedItemsKept == [][StackKept]_vars

\* C36 (Destructor once per object, only at deallocation): every run of T's destructor
\* ends a constructed object, so it happens in free(); the destructor of the pool runs
\* T's destructor on no chunk; and the destructor calls never outnumber the constructor
\* calls.
DestructorRuns == work'.dtors > work.dtors

DestructsAnObject ==
  DestructorRuns =>
    /\ \E c \in Chunks : obj[c] # NoType /\ obj'[c] = NoType
    /\ \A t \in DOMAIN th : th[t].pc # "ld_loop"

C36_DestructorOncePerObject == [][DestructsAnObject]_vars /\ [](work.dtors <= work.ctors)

\* C37 (Linearizability of the free-list): a successful pop CAS acts as one atomic pop of
\* a stack: the value it installs as the new head is the successor of the popped chunk
\* at the moment of the CAS, and the stack loses the popped chunk and nothing else.
PopSucceeds(t) == th[t].pc = "a_cas" /\ th'[t].pc \notin {"a_cas", "a_readNext", "p_lock"}

AtomicPop ==
  \A t \in DOMAIN th :
    PopSucceeds(t) =>
       /\ raw'[th[t].s].freeItems_ = next[th[t].oldHead]
       /\ \A s \in 1..Len(raw) : s = th[t].s => FreeSet(s)' = FreeSet(s) \ {th[t].oldHead}

C37_Linearizable == [][AtomicPop]_vars


\* ------------------------------------------------ registry against single-type allocator
\* SegregatedStorage<T, PageSize>::SegregatedStorage():
\* rawStorage_ = std::make_unique<RawSegregatedStorage<sizeof(T), alignof(T), PageSize>>();
SingleStorageRunTime(T, PageSize) == NewStorage("growing", SizeOf(T), AlignOf(T), PageSize)
SingleStorage(T, PageSize) == NewStorage("fixed", SizeOf(T), AlignOf(T), PageSize)

\* The place of chunk c in storage s: the ordinal of its page in the order of creation
\* and its index in the page.
Place(s, c) ==
  LET pages == raw[s].pageHead_
      i == CHOOSE i \in 1..Len(pages) : c \in PageChunks(pages[i])
  IN <<Len(pages) - i, c - pages[i].first>>

\* SpecRefine: one thread drives a SegregatedStorage<ThrowableCtor, PageSize> (storage 1)
\* and a SegregatedMultiStorage<PageSize> with the same PageSize through the same
\* sequence of up to MaxRefineOps operations: each operation (allocate, allocate with a
\* throwing constructor, free of a live object) is issued on the single-type allocator
\* and, when it has returned, on the registry.  hist records for each returned call its
\* facade, its result, the place of the chunk and the number of pages of the storage.
InitRefine ==
  /\ InitWith(1)
  /\ raw = <<SingleStorage("ThrowableCtor", RegistryPageSize)>>
  /\ work = [NoWork EXCEPT !.phase = "refine", !.facade = "single"]

RefineCallSingle(t) ==
  /\ work.facade = "single"
  /\ outcome[t].kind = "none"
  /\ Len(work.hist) < 2 * MaxRefineOps
  /\ \/ \E arg \in BOOLEAN :
          /\ CallTypedAllocate(t, "single", "ThrowableCtor", arg)
          /\ work' = [work EXCEPT !.op = IF arg THEN "throw" ELSE "ok"]
     \/ \E c \in StorageChunks(1) :
          /\ CallTypedFree(t, "single", c)
          /\ work' = [work EXCEPT !.op = "free", !.index = Place(1, c)]

RefineCallMulti(t) ==
  /\ work.facade = "multi"
  /\ outcome[t].kind = "none"
  /\ \/ /\ work.op \in {"ok", "throw"}
        /\ CallTypedAllocate(t, "multi", "ThrowableCtor", work.op = "throw")
     \/ /\ work.op = "free"
        /\ \E c \in Chunks \ StorageChunks(1) :
             /\ Place(StorageFor("multi", "ThrowableCtor"), c) = work.index
             /\ CallTypedFree(t, "multi", c)
  /\ work' = [work EXCEPT !.op = "none", !.index = << >>]

\* The call has returned: its result is noted and the turn passes to the other facade.
RefineRecord(t) ==
  /\ th[t].pc = "idle"
  /\ outcome[t].kind \notin {"none", "pending"}
  /\ work' = [work EXCEPT !.hist = Append(@, [via |-> work.facade, kind |-> outcome[t].kind,
                                               place |-> Place(outcome[t].s, outcome[t].chunk),
                                               pages |-> PageCount(outcome[t].s)]),
                          !.facade = IF work.facade = "single" THEN "multi" ELSE "single"]
  /\ outcome' = [outcome EXCEPT ![t] = NoOutcome]
  /\ UNCHANGED <<raw, mem, reg, th, calls>>

NextRefine ==
  \E t \in DOMAIN th :
    \/ RefineCallSingle(t)
    \/ RefineCallMulti(t)
    \/ RefineRecord(t)
    \/ RawStep(t)
    \/ TypedStep(t)
    \/ RegistryStep(t)

SpecRefine == InitRefine /\ [][NextRefine]_vars

\* C38 (Registry refines the single-type allocator): driven through the same sequential
\* sequence of allocate/free operations on one type with the same page size, the registry
\* and the single-type allocator give each operation the same result, hand out or take
\* back the chunk at the same place, and have added the same number of pages after it.
SameStep(a, b) ==
  /\ a.via = "single" /\ b.via = "multi"
  /\ a.kind = b.kind
  /\ a.place = b.place
  /\ a.pages = b.pages

LifoConfigs == {FixedStorage("TestClass", LifoItems), GrowingStorage("TestClass", LifoItems)}

InitLifo ==
  /\ InitWith(1)
  /\ \E r \in LifoConfigs : raw = <<r>>
  /\ work = [NoWork EXCEPT !.phase = "lifo"]

LifoCall(t) ==
  /\ outcome[t].kind = "none"
  /\ TotalCalls < MaxLifoOps
  /\ \/ CallAllocate(t, 1)
     \/ \E c \in Chunks : CallFree(t, 1, c)
  /\ UNCHANGED work

LifoRecord(t) ==
  /\ th[t].pc = "idle"
  /\ outcome[t].kind \in {"chunk", "freed"}
  /\ work' = [work EXCEPT !.hist = Append(@, [kind |-> outcome[t].kind,
                                               chunk |-> outcome[t].chunk,
                                               pages |-> PageCount(1)])]
  /\ outcome' = [outcome EXCEPT ![t] = NoOutcome]
  /\ UNCHANGED <<raw, mem, reg, th, calls>>

NextLifo ==
  \E t \in DOMAIN th :
    \/ LifoCall(t)
    \/ LifoRecord(t)
    \/ RawStep(t)

SpecLifo == InitLifo /\ [][NextLifo]_vars

\* C39 (Sequential reuse order): in single-threaded use the free-list is a LIFO stack:
\* an allocate() that directly follows free(c) returns c; the chunks of a page are handed
\* out for the first time in ascending index order, beginning with index 0 in the call
\* that added the page; and after k free() calls in a row for c1..ck, the next k
\* allocate() calls return ck..c1.
Allocs(h) == {i \in 1..Len(h) : h[i].kind = "chunk"}
Frees(h) == {i \in 1..Len(h) : h[i].kind = "freed"}
FirstHandouts(h) == {i \in Allocs(h) : \A j \in Allocs(h) : j < i => h[j].chunk # h[i].chunk}
PagesBefore(h, i) == IF i = 1 THEN 0 ELSE h[i - 1].pages

ReturnsLastFreed(h) ==
  \A i \in Frees(h) : (i + 1) \in Allocs(h) => h[i + 1].chunk = h[i].chunk

FreshPageAscending(h) ==
  \A i \in FirstHandouts(h) :
    LET before == {j \in FirstHandouts(h) : j < i /\ Place(1, h[j].chunk)[1] = Place(1, h[i].chunk)[1]}
    IN /\ Place(1, h[i].chunk)[2] = Cardinality(before)
       /\ (h[i].pages > PagesBefore(h, i)) => Place(1, h[i].chunk) = <<h[i].pages - 1, 0>>

ReverseOfFrees(h) ==
  \A i \in 0..Len(h), k \in 1..Len(h) :
    (/\ i + 2 * k <= Len(h)
     /\ (i + 1)..(i + k) \subseteq Frees(h)
     /\ (i + k + 1)..(i + 2 * k) \subseteq Allocs(h))
    => \A j \in 1..k : h[i + k + j].chunk = h[i + k + 1 - j].chunk

C39_SequentialLifo ==
  work.phase = "lifo" =>
    /\ ReturnsLastFreed(work.hist)
    /\ FreshPageAscending(work.hist)
    /\ ReverseOfFrees(work.hist)

\* All chunks of the first page and one of a second page were handed out, two chunks
\* were freed in a row, and the next two allocate() calls have returned.
C39_Witness ==
  /\ work.phase = "lifo"
  /\ Len(work.hist) = MaxLifoOps
  /\ Cardinality(FirstHandouts(work.hist)) > LifoItems
  /\ \E i \in 1..Len(work.hist) :
       /\ {i, i + 1} \subseteq Frees(work.hist)
       /\ {i + 2, i + 3} \subseteq Allocs(work.hist)
       /\ work.hist[i].chunk # work.hist[i + 1].chunk

\* ------------------------------------------------------- page-growth mutex
\* SpecMutex: every thread makes up to MaxMutexOps allocate()/free() calls on one
\* allocator (template version, run-time version, run-time version with a page size too
\* small for one chunk, or ObjectPool) while the memory provider may refuse any page;
\* a thread inside a call keeps taking steps and a compare_exchange_weak that could
\* succeed again and again does not fail spuriously for ever.
InitMutex ==
  /\ InitWith(NumThreads)
  /\ raw \in {<<FixedStorage("TestClass", 2)>>, <<GrowingStorage("TestClass", 2)>>,
              <<PoolStorage("TestClass", 2)>>, <<TooSmallStorage("TestClass")>>}
  /\ work = [NoWork EXCEPT !.phase = "mutex"]

MutexStep(t) ==
  \/ RawStep(t)
  \/ PoolStep(t)
  \/ AddPageAllocFails(t)
  \/ AddPageSizeError(t)

NextMutex ==
  \E t \in DOMAIN th :
    \/ calls[t] < MaxMutexOps /\ CallAllocate(t, 1)
    \/ \E c \in Chunks : calls[t] < MaxMutexOps /\ CallFree(t, 1, c)
    \/ MutexStep(t)

SpecMutex ==
  /\ InitMutex
  /\ [][NextMutex]_vars
  /\ \A t \in Threads : WF_vars(MutexStep(t)) /\ SF_vars(AllocCASOk(t)) /\ SF_vars(PushCASOk(t))

\* C40 (Page-growth mutex released on every exit of addPage): a thread holds the mutex
\* only between the lock and the end of addPage, so after an early return, a normal
\* return or an exception from the page allocation it holds it no more; and every thread
\* that waits for the mutex acquires it, also after another thread's page allocation
\* failed.
BetweenLockAndExit(t) ==
  \/ th[t].pc \in {"p_check", "o_inc", "p_alloc", "p_inc", "o_ret"}
  \/ th[t].pc \in {"u_load", "u_link", "u_cas"} /\ th[t].after \in {"p_inc", "o_ret"}

HeldOnlyInAddPage ==
  \A s \in 1..Len(raw) :
    /\ raw[s].allocationMutex_ \in {0} \cup DOMAIN th
    /\ \A t \in DOMAIN th :
         raw[s].allocationMutex_ = t <=> (th[t].s = s /\ BetweenLockAndExit(t))

C40_MutexReleased ==
  /\ []HeldOnlyInAddPage
  /\ \A t \in Threads : (th[t].pc = "p_lock") ~> (th[t].pc # "p_lock")

\* A thread's page allocation failed, and another thread, which found the free-list empty
\* afterwards, holds the mutex and is about to obtain a page.
C40_Witness ==
  \E t, u \in DOMAIN th :
    /\ t # u
    /\ outcome[u].kind = "bad_alloc"
    /\ th[u].pc = "idle"
    /\ raw[1].allocationMutex_ = t
    /\ th[t].pc = "p_alloc"
    /\ PageCount(1) = 0

====
